---- MODULE Spec2Model ----
(***************************************************************************)
(* The tool-execution gateway of the customer-service agent:               *)
(* ToolExecutor.execute (app/tools/executor.py), the tool registry, the    *)
(* input schemas, the policy functions, the five tool handlers, the        *)
(* in-memory store and the audit logger.                                   *)
(*                                                                         *)
(* Money is counted in units of 1e-9 USD, the tolerance that               *)
(* assert_refund_amount_allowed adds to the remaining refundable amount,   *)
(* so that amounts are integers and the comparison                         *)
(* amount_usd > remaining + 1e-9 is exact.  Time is counted in days.       *)
(***************************************************************************)
EXTENDS Integers, Sequences, FiniteSets, TLC

\* Python's None, for optional strings.
NONE == "None"

\* Python truthiness of an optional string: None and "" are falsy.
Truthy(s) == s # NONE /\ s # ""

-----------------------------------------------------------------------------
(* Bounds of the model *)

\* Number of execute calls in one behaviour.
MaxCalls == 2

-----------------------------------------------------------------------------
(* app/tools/types.py *)

ToolName ==
    {"get_order_status", "track_shipment", "issue_refund", "update_contact",
     "initiate_password_reset"}

ToolValidationError == "ToolValidationError"
ToolPolicyError == "ToolPolicyError"
ToolNotFoundError == "ToolNotFoundError"
ToolTransientError == "ToolTransientError"
\* asyncio.TimeoutError, raised by asyncio.wait_for.
TimeoutError == "TimeoutError"

\* No exception.
NoExc == [type |-> NONE, message |-> ""]

Exc(t, m) == [type |-> t, message |-> m]

\* ToolContext values used by the callers (actor is always "customer").
UserIds == {"user_123", "user_456"}

ToolContext == [user_id : UserIds, request_id : {"req_1"}, actor : {"customer"}]

-----------------------------------------------------------------------------
(* app/tools/store.py *)

OrderStatus == {"processing", "shipped", "delivered", "cancelled"}

\* The seed order of InMemoryStore and its shipment and user.
SeedOrderId == "ord_XYZ78901"
SeedTrackingId == "trk_ABC12345"
SeedUserId == "user_123"
SeedEmail == "customer@example.com"
SeedPhone == "+14155552671"

\* total_amount_usd of the order, in units of 1e-9 USD.
TotalAmount == 2


\* Emails the store and the callers use.  EmailCaseVariant differs from
\* SeedEmail only in letter case.
NewEmail == "customer+new@example.com"
EmailCaseVariant == "Customer@Example.com"
NewPhone == "+14155550000"

\* str.lower() on the emails of the model.
Lower(s) == IF s = EmailCaseVariant THEN SeedEmail ELSE s

\* InMemoryStore.__init__: the seed data.  The order's status is a parameter
\* (the seed order is "shipped").
SeedUsers == [u \in {SeedUserId} |-> [user_id |-> u, email |-> SeedEmail, phone_e164 |-> SeedPhone]]

SeedShipments ==
    [t \in {SeedTrackingId} |->
        [tracking_id |-> t, carrier |-> "UPS", status |-> "in_transit"]]

SeedOrders(status) ==
    [o \in {SeedOrderId} |->
        [order_id |-> o,
         user_id |-> SeedUserId,
         status |-> status,
         created_at |-> 0,
         total_amount_usd |-> TotalAmount,
         tracking_id |-> SeedTrackingId,
         refunded_amount_usd |-> 0,
         refund_idempotency_keys |-> {}]]

\* InMemoryStore.get_user / get_order / get_shipment: dict.get, None if absent.
HasKey(d, k) == k \in DOMAIN d

\* An update that writes both fields, supplied or not.
update_user_contact_both_fields(us, user_id, new_email, new_phone_e164) ==
    [us EXCEPT ![user_id] =
        [us[user_id] EXCEPT !.email = new_email, !.phone_e164 = new_phone_e164]]

\* InMemoryStore.update_user_contact
update_user_contact(us, user_id, new_email, new_phone_e164) ==
    LET user == us[user_id]
        e == IF Truthy(new_email) THEN new_email ELSE user.email
        p == IF Truthy(new_phone_e164) THEN new_phone_e164 ELSE user.phone_e164
    IN [us EXCEPT ![user_id] = [user EXCEPT !.email = e, !.phone_e164 = p]]

-----------------------------------------------------------------------------
(* app/tools/schemas.py *)

\* Identifiers the callers send.  The well-formed ones match the patterns
\* ^ord_[a-zA-Z0-9]{6,32}$ and ^trk_[a-zA-Z0-9]{6,32}$.
MissingOrderId == "ord_MISSING01"
MalformedOrderId == "order-1"
MissingTrackingId == "trk_MISSING01"
MalformedTrackingId == "track 1"
MalformedEmail == "not-an-email"
MalformedPhone == "4155552671"

OrderId(s) == s \in {SeedOrderId, MissingOrderId}
TrackingId(s) == s \in {SeedTrackingId, MissingTrackingId}
EmailStr(s) == s \in {SeedEmail, NewEmail, EmailCaseVariant}
PhoneE164(s) == s \in {SeedPhone, NewPhone}

\* Field(min_length=3, max_length=240) of IssueRefundInput.reason
ReasonMinLength == 3
ReasonMaxLength == 240

GetOrderStatusInput(args) == OrderId(args.order_id)

TrackShipmentInput(args) ==
    /\ args.tracking_id = NONE \/ TrackingId(args.tracking_id)
    /\ args.order_id = NONE \/ OrderId(args.order_id)
    \* model_post_init
    /\ ~(~Truthy(args.tracking_id) /\ ~Truthy(args.order_id))

IssueRefundInput(args) ==
    /\ OrderId(args.order_id)
    /\ args.amount_usd > 0
    /\ args.reason_len >= ReasonMinLength
    /\ args.reason_len <= ReasonMaxLength

UpdateContactInput(args) ==
    /\ args.new_email = NONE \/ EmailStr(args.new_email)
    /\ args.new_phone_e164 = NONE \/ PhoneE164(args.new_phone_e164)
    \* model_post_init
    /\ ~(~Truthy(args.new_email) /\ ~Truthy(args.new_phone_e164))

InitiatePasswordResetInput(args) == EmailStr(args.email)

\* tool.input_model of each registered tool.
input_model(name, args) ==
    CASE name = "get_order_status" -> GetOrderStatusInput(args)
      [] name = "track_shipment" -> TrackShipmentInput(args)
      [] name = "issue_refund" -> IssueRefundInput(args)
      [] name = "update_contact" -> UpdateContactInput(args)
      [] name = "initiate_password_reset" -> InitiatePasswordResetInput(args)

-----------------------------------------------------------------------------
(* app/tools/policies.py *)

\* The tolerance 1e-9 of assert_refund_amount_allowed, in units of 1e-9 USD.
Tolerance == 1

Max(a, b) == IF a >= b THEN a ELSE b

assert_order_belongs_to_user(order, user_id) ==
    IF order.user_id # user_id
    THEN Exc(ToolPolicyError, "Order does not belong to the current user.")
    ELSE NoExc

\* A window check that also rejects a call made exactly at the boundary.
assert_refund_within_window_closed(order, s, today) ==
    IF today - order.created_at >= s.refund_window_days
    THEN Exc(ToolPolicyError, "Refund window expired.")
    ELSE NoExc

assert_refund_within_window(order, s, today) ==
    IF today - order.created_at > s.refund_window_days
    THEN Exc(ToolPolicyError, "Refund window expired.")
    ELSE NoExc

\* An amount check without the guard for cancelled orders.
assert_refund_amount_allowed_any_status(order, amount_usd, s) ==
    LET cap == s.refund_max_amount_usd
        remaining == Max(0, order.total_amount_usd - order.refunded_amount_usd)
    IN IF amount_usd > cap
       THEN Exc(ToolPolicyError, "Refund amount exceeds policy cap.")
       ELSE IF amount_usd > remaining + Tolerance
       THEN Exc(ToolPolicyError, "Refund exceeds remaining refundable amount.")
       ELSE NoExc

assert_refund_amount_allowed(order, amount_usd, s) ==
    LET cap == s.refund_max_amount_usd
        remaining == Max(0, order.total_amount_usd - order.refunded_amount_usd)
    IN IF amount_usd > cap
       THEN Exc(ToolPolicyError, "Refund amount exceeds policy cap.")
       ELSE IF amount_usd > remaining + Tolerance
       THEN Exc(ToolPolicyError, "Refund exceeds remaining refundable amount.")
       ELSE IF order.status = "cancelled"
       THEN Exc(ToolPolicyError, "Cannot refund a cancelled order via this tool.")
       ELSE NoExc

-----------------------------------------------------------------------------
(* app/tools/implementations.py *)

\* What one run of a handler does: the exception it raises (NoExc if none),
\* the output model it returns, and the store's orders and users after it.
NoResult == [kind |-> "none"]

Raises(exc, os, us) == [raise |-> exc, result |-> NoResult, orders |-> os, users |-> us]

Returns(out, os, us) == [raise |-> NoExc, result |-> out, orders |-> os, users |-> us]

GetOrderStatusTool_run(ctx, tool_input, os, sh, us) ==
    IF ~HasKey(os, tool_input.order_id)
    THEN Raises(Exc(ToolValidationError, "Order not found."), os, us)
    ELSE LET order == os[tool_input.order_id]
             own == assert_order_belongs_to_user(order, ctx.user_id)
         IN IF own # NoExc
            THEN Raises(own, os, us)
            ELSE Returns([kind |-> "GetOrderStatusOutput",
                          order_id |-> order.order_id,
                          status |-> order.status,
                          total_amount_usd |-> order.total_amount_usd], os, us)

TrackShipmentTool_run(ctx, tool_input, os, sh, us) ==
    LET by_order == ~Truthy(tool_input.tracking_id) /\ Truthy(tool_input.order_id)
        order_missing == by_order /\ ~HasKey(os, tool_input.order_id)
        own == IF by_order /\ ~order_missing
               THEN assert_order_belongs_to_user(os[tool_input.order_id], ctx.user_id)
               ELSE NoExc
        tracking_id == IF by_order /\ ~order_missing
                       THEN os[tool_input.order_id].tracking_id
                       ELSE tool_input.tracking_id
    IN IF order_missing
       THEN Raises(Exc(ToolValidationError, "Order not found."), os, us)
       ELSE IF own # NoExc
       THEN Raises(own, os, us)
       ELSE IF ~Truthy(tracking_id)
       THEN Raises(Exc(ToolValidationError, "Tracking id not found for this order."), os, us)
       ELSE IF ~HasKey(sh, tracking_id)
       THEN Raises(Exc(ToolValidationError, "Shipment not found."), os, us)
       ELSE Returns([kind |-> "TrackShipmentOutput",
                     tracking_id |-> sh[tracking_id].tracking_id,
                     carrier |-> sh[tracking_id].carrier,
                     status |-> sh[tracking_id].status], os, us)

\* A handler that never looks at the recorded keys.
IsDuplicateRequest_never(order, idempotency_key) == FALSE

\* Lines 137-138: the call carries a key that the order has recorded.
IsDuplicateRequest(order, idempotency_key) ==
    /\ Truthy(idempotency_key)
    /\ idempotency_key \in order.refund_idempotency_keys

\* A handler that records the key and books nothing.
ApplyRefund_key_only(order, amount_usd, idempotency_key) ==
    [order EXCEPT
        !.refund_idempotency_keys =
            IF Truthy(idempotency_key) THEN @ \cup {idempotency_key} ELSE @]

\* A deduction that also closes the order.
ApplyRefund_cancelling(order, amount_usd, idempotency_key) ==
    [order EXCEPT
        !.status = "cancelled",
        !.refunded_amount_usd = @ + amount_usd,
        !.refund_idempotency_keys =
            IF Truthy(idempotency_key) THEN @ \cup {idempotency_key} ELSE @]

\* A deduction that is applied twice.
ApplyRefund_twice(order, amount_usd, idempotency_key) ==
    [order EXCEPT
        !.refunded_amount_usd = @ + amount_usd + amount_usd,
        !.refund_idempotency_keys =
            IF Truthy(idempotency_key) THEN @ \cup {idempotency_key} ELSE @]

\* Lines 155-158: the deduction.
ApplyRefund(order, amount_usd, idempotency_key) ==
    [order EXCEPT
        !.refunded_amount_usd = @ + amount_usd,
        !.refund_idempotency_keys =
            IF Truthy(idempotency_key) THEN @ \cup {idempotency_key} ELSE @]

\* An eligibility test that turns away cancelled orders only.
RefundableStatus_not_cancelled(order) == order.status # "cancelled"

\* Line 149: only shipped and delivered orders can be refunded.
RefundableStatus(order) == order.status \in {"shipped", "delivered"}

\* Policy checks that test ownership last.
RefundPolicyChecks_ownership_last(order, ctx, tool_input, s, today) ==
    LET own == assert_order_belongs_to_user(order, ctx.user_id)
        win == assert_refund_within_window(order, s, today)
        amt == assert_refund_amount_allowed(order, tool_input.amount_usd, s)
    IN IF win # NoExc THEN win ELSE IF amt # NoExc THEN amt ELSE own

\* Lines 128-134: the three policy checks, in the order the handler makes them.
RefundPolicyChecks(order, ctx, tool_input, s, today) ==
    LET own == assert_order_belongs_to_user(order, ctx.user_id)
        win == assert_refund_within_window(order, s, today)
        amt == assert_refund_amount_allowed(order, tool_input.amount_usd, s)
    IN IF own # NoExc THEN own ELSE IF win # NoExc THEN win ELSE amt

IssueRefundTool_run(ctx, tool_input, os, sh, us, s, today) ==
    IF ~HasKey(os, tool_input.order_id)
    THEN Raises(Exc(ToolValidationError, "Order not found."), os, us)
    ELSE LET order == os[tool_input.order_id]
             pol == RefundPolicyChecks(order, ctx, tool_input, s, today)
         IN IF pol # NoExc
            THEN Raises(pol, os, us)
            ELSE IF IsDuplicateRequest(order, tool_input.idempotency_key)
            THEN Returns([kind |-> "IssueRefundOutput",
                          order_id |-> order.order_id,
                          approved |-> TRUE,
                          refunded_amount_usd |-> 0,
                          refund_id |-> "refund_duplicate"], os, us)
            ELSE IF ~RefundableStatus(order)
            THEN Raises(Exc(ToolPolicyError,
                            "Order is not eligible for refund in its current status."),
                        os, us)
            ELSE Returns([kind |-> "IssueRefundOutput",
                          order_id |-> order.order_id,
                          approved |-> TRUE,
                          refunded_amount_usd |-> tool_input.amount_usd,
                          refund_id |-> "rf_uuid"],
                         [os EXCEPT ![tool_input.order_id] =
                             ApplyRefund(order, tool_input.amount_usd,
                                         tool_input.idempotency_key)],
                         us)

UpdateContactTool_run(ctx, tool_input, os, sh, us) ==
    IF ~HasKey(us, ctx.user_id)
    THEN Raises(Exc(ToolValidationError, "User not found."), os, us)
    ELSE LET updated == update_user_contact(us, ctx.user_id, tool_input.new_email,
                                            tool_input.new_phone_e164)
         IN Returns([kind |-> "UpdateContactOutput",
                     user_id |-> updated[ctx.user_id].user_id,
                     updated_email |-> updated[ctx.user_id].email,
                     updated_phone_e164 |-> updated[ctx.user_id].phone_e164],
                    os, updated)

\* A handler that compares the email with the one the account was opened with.
InitiatePasswordResetTool_run_first_email(ctx, tool_input, os, sh, us) ==
    IF ~HasKey(us, ctx.user_id)
    THEN Raises(Exc(ToolValidationError, "User not found."), os, us)
    ELSE IF Lower(SeedUsers[ctx.user_id].email) # Lower(tool_input.email)
    THEN Raises(Exc(ToolPolicyError,
                    "Password reset can only be initiated for the authenticated user's email."),
                os, us)
    ELSE Returns([kind |-> "InitiatePasswordResetOutput",
                  email |-> us[ctx.user_id].email,
                  initiated |-> TRUE], os, us)

InitiatePasswordResetTool_run(ctx, tool_input, os, sh, us) ==
    IF ~HasKey(us, ctx.user_id)
    THEN Raises(Exc(ToolValidationError, "User not found."), os, us)
    ELSE IF Lower(us[ctx.user_id].email) # Lower(tool_input.email)
    THEN Raises(Exc(ToolPolicyError,
                    "Password reset can only be initiated for the authenticated user's email."),
                os, us)
    ELSE Returns([kind |-> "InitiatePasswordResetOutput",
                  email |-> us[ctx.user_id].email,
                  initiated |-> TRUE], os, us)

\* tool.run of the registered tool of that name.
tool_run(name, ctx, tool_input, os, sh, us, s, today) ==
    CASE name = "get_order_status" -> GetOrderStatusTool_run(ctx, tool_input, os, sh, us)
      [] name = "track_shipment" -> TrackShipmentTool_run(ctx, tool_input, os, sh, us)
      [] name = "issue_refund" -> IssueRefundTool_run(ctx, tool_input, os, sh, us, s, today)
      [] name = "update_contact" -> UpdateContactTool_run(ctx, tool_input, os, sh, us)
      [] name = "initiate_password_reset" ->
            InitiatePasswordResetTool_run(ctx, tool_input, os, sh, us)

-----------------------------------------------------------------------------
(* app/tools/registry.py, app/tools/factory.py *)

\* A tool object: its name and which object it is.  The factory constructs
\* one object of each tool class; another object of the same class has the
\* same name and the same handler.
ToolObjects == {"factory", "replacement"}
ToolInstances == [name : ToolName, object : ToolObjects]
FactoryTool(name) == [name |-> name, object |-> "factory"]

\* None where a tool is expected.
NoTool == [name |-> NONE, object |-> NONE]

\* ToolRegistry.__init__: _tools is an empty dict.  A dict is modelled as
\* the sequence of its values in insertion order; the key of a value is its
\* name.
ToolRegistry_init == <<>>

\* The keys of _tools.
ToolRegistry_keys(reg) == {reg[i].name : i \in DOMAIN reg}

\* A registration that always adds an entry.
ToolRegistry_register_appending(reg, t) == Append(reg, t)

\* ToolRegistry.register: _tools[tool.name] = RegisteredTool(tool).  An
\* assignment to a key the dict has keeps the key's place.
ToolRegistry_register(reg, t) ==
    IF t.name \in ToolRegistry_keys(reg)
    THEN [i \in DOMAIN reg |-> IF reg[i].name = t.name THEN t ELSE reg[i]]
    ELSE Append(reg, t)

\* A lookup with a default: an unknown name gets the first tool.
ToolRegistry_get_with_default(reg, name) ==
    IF name \in ToolRegistry_keys(reg)
    THEN reg[CHOOSE i \in DOMAIN reg :
                /\ reg[i].name = name
                /\ \A j \in DOMAIN reg : reg[j].name = name => i <= j]
    ELSE FactoryTool("get_order_status")

\* ToolRegistry.get: the tool of that name, None if there is none.
ToolRegistry_get(reg, name) ==
    IF name \in ToolRegistry_keys(reg)
    THEN reg[CHOOSE i \in DOMAIN reg :
                /\ reg[i].name = name
                /\ \A j \in DOMAIN reg : reg[j].name = name => i <= j]
    ELSE NoTool

\* Python's order of str on the names of the tools.
SortedToolNames ==
    <<"get_order_status", "initiate_password_reset", "issue_refund",
      "track_shipment", "update_contact">>

StrLess(a, b) ==
    \E i, j \in DOMAIN SortedToolNames :
        SortedToolNames[i] = a /\ SortedToolNames[j] = b /\ i < j

\* ToolRegistry.names: sorted(self._tools.keys()).
ToolRegistry_names(reg) == SortSeq([i \in DOMAIN reg |-> reg[i].name], StrLess)

\* build_tool_registry registers its five tools in this order.
FactoryOrder ==
    <<"get_order_status", "track_shipment", "issue_refund", "update_contact",
      "initiate_password_reset">>

RECURSIVE RegisterAll(_, _)
RegisterAll(reg, names) ==
    IF names = <<>>
    THEN reg
    ELSE RegisterAll(ToolRegistry_register(reg, FactoryTool(Head(names))), Tail(names))

\* build_tool_registry: the five tools are registered at startup.
build_tool_registry == RegisterAll(ToolRegistry_init, FactoryOrder)

-----------------------------------------------------------------------------
(* app/tools/audit.py *)

\* An event that records every error under one name.
ToolAuditEvent_generic_error(ctx, call, status, error_type, error_message) ==
    [request_id |-> ctx.request_id,
     user_id |-> ctx.user_id,
     actor |-> ctx.actor,
     tool_name |-> call.name,
     status |-> status,
     error_type |-> IF status = "error" THEN "ToolError" ELSE error_type,
     error_message |-> error_message]

ToolAuditEvent(ctx, call, status, error_type, error_message) ==
    [request_id |-> ctx.request_id,
     user_id |-> ctx.user_id,
     actor |-> ctx.actor,
     tool_name |-> call.name,
     status |-> status,
     error_type |-> error_type,
     error_message |-> error_message]

\* A logger that opens the file for writing, not for appending.
ToolAuditLogger_log_truncating(lines, event) == <<event>>

\* ToolAuditLogger.log: one line appended to tool_calls.jsonl.
ToolAuditLogger_log(lines, event) == Append(lines, event)

-----------------------------------------------------------------------------
(* app/tools/executor.py *)

\* stop_after_attempt(3) of the retry decorator.
StopAfterAttempt == 3

\* A retry condition that retries every exception.
retry_if_any_exception(exc) == exc.type # NONE

\* retry_if_exception_type(ToolTransientError)
retry_if_exception_type(exc) == exc.type = ToolTransientError

\* stop_after_attempt(3)
stop_after_attempt(attempt_number) == attempt_number >= StopAfterAttempt

\* Validation that lets every args value through.
model_validate_unchecked(name, args) == NoExc

\* Lines 51-54: model_validate, a pydantic ValidationError becoming a
\* ToolValidationError.
model_validate(name, args) ==
    IF input_model(name, args)
    THEN NoExc
    ELSE Exc(ToolValidationError, "validation error")

\* Lines 94-99: the handler's own count of the attempts.  retry.statistics is
\* the decorator object's record: tenacity fills it only when the wrapped
\* function is called through that object (stats_live); when each call works
\* on a copy of the object it stays empty and the check is skipped.
MaxRetriesExceeded(s, stats_live, attempt_number) ==
    /\ stats_live
    /\ attempt_number > 1 + s.tool_max_retries

\* asyncio.wait_for(tool.run(...), timeout): with a timeout <= 0 the handler
\* is cancelled before its first step; the handlers never suspend, so with a
\* timeout > 0 they run to completion.
wait_for_times_out(s) == s.tool_timeout_seconds <= 0

\* The timeout left as it is raised.
ReclassifyTimeout_missing(exc) == exc

\* Lines 106-107: asyncio.TimeoutError becomes ToolTransientError.
ReclassifyTimeout(exc) ==
    IF exc.type = TimeoutError
    THEN Exc(ToolTransientError, "Tool execution timed out.")
    ELSE exc

\* An audit that records only the successful calls.
log_event_success_only(has_audit, lines, ctx, call, status, error_type, error_message) ==
    IF ~has_audit \/ status # "success"
    THEN lines
    ELSE ToolAuditLogger_log(lines,
            ToolAuditEvent(ctx, call, status, error_type, error_message))

\* ToolExecutor._log_event
log_event(has_audit, lines, ctx, call, status, error_type, error_message) ==
    IF ~has_audit
    THEN lines
    ELSE ToolAuditLogger_log(lines,
            ToolAuditEvent(ctx, call, status, error_type, error_message))

-----------------------------------------------------------------------------
(* Configuration and inputs *)

\* refund_max_amount_usd, in units of 1e-9 USD.
RefundMaxAmount == 2

\* refund_window_days
RefundWindowDays == 1

\* Largest amount_usd a caller asks for, in units of 1e-9 USD.
MaxAmount == 3

\* The settings the gateway is started with.  tool_max_retries is below, at
\* and above the decorator's limit of 3 attempts; tool_timeout_seconds is a
\* timeout the handlers meet (30) or one that no handler meets (0).
SettingsValues ==
    {[tool_max_retries |-> r,
      tool_timeout_seconds |-> t,
      refund_max_amount_usd |-> RefundMaxAmount,
      refund_window_days |-> RefundWindowDays] :
        r \in {0, 2, 3}, t \in {0, 30}}

\* The startups the model explores: a process is its settings, its build
\* (stats_live), whether the gateway has an audit logger, and the status of
\* the order in the store.  Where no handler times out, no attempt is
\* retried, so tool_max_retries and stats_live are never read and one value
\* of each is kept; where every handler times out, no handler reads the
\* order, and one status is kept.
Startups ==
    {st \in [settings : SettingsValues, stats_live : BOOLEAN,
             has_audit : BOOLEAN, status : OrderStatus, refunded : BOOLEAN] :
        /\ st.settings.tool_timeout_seconds > 0 =>
              st.settings.tool_max_retries = 2 /\ ~st.stats_live
        /\ st.settings.tool_timeout_seconds <= 0 => st.status = "shipped"
        /\ st.refunded => st.status = "cancelled"}

\* The key the callers send with a refund (scripts/tool_smoke_test.py).
RefundKey == "refund_once_001"

\* An order's records after a refund of one unit with RefundKey was made on
\* it: the state of an order that was refunded and cancelled afterwards.
RefundedEarlier(os) ==
    [o \in DOMAIN os |-> ApplyRefund(os[o], TotalAmount - 1, RefundKey)]

\* A name that is not registered.
UnknownToolName == "cancel_order"

\* len(reason): too short, and in range.
ReasonLengths == {2, 20}

GetOrderStatusArgs == [order_id : {SeedOrderId, MissingOrderId, MalformedOrderId}]

TrackShipmentArgs ==
    {[tracking_id |-> NONE, order_id |-> SeedOrderId],
     [tracking_id |-> SeedTrackingId, order_id |-> NONE],
     [tracking_id |-> MissingTrackingId, order_id |-> NONE],
     [tracking_id |-> MalformedTrackingId, order_id |-> NONE],
     [tracking_id |-> NONE, order_id |-> NONE]}

IssueRefundArgs ==
    [order_id : {SeedOrderId}, amount_usd : 1..MaxAmount, reason_len : {20},
     idempotency_key : {NONE, RefundKey}]
    \cup
    {[order_id |-> SeedOrderId, amount_usd |-> 1, reason_len |-> 20,
      idempotency_key |-> ""],
     [order_id |-> MissingOrderId, amount_usd |-> 1, reason_len |-> 20,
      idempotency_key |-> NONE],
     [order_id |-> MalformedOrderId, amount_usd |-> 1, reason_len |-> 20,
      idempotency_key |-> NONE],
     [order_id |-> SeedOrderId, amount_usd |-> 0, reason_len |-> 20,
      idempotency_key |-> NONE],
     [order_id |-> SeedOrderId, amount_usd |-> 1, reason_len |-> 2,
      idempotency_key |-> NONE]}

UpdateContactArgs ==
    {[new_email |-> NewEmail, new_phone_e164 |-> NONE],
     [new_email |-> NONE, new_phone_e164 |-> NewPhone],
     [new_email |-> MalformedEmail, new_phone_e164 |-> NONE],
     [new_email |-> NONE, new_phone_e164 |-> MalformedPhone],
     [new_email |-> NONE, new_phone_e164 |-> NONE]}

InitiatePasswordResetArgs ==
    [email : {SeedEmail, EmailCaseVariant, NewEmail, MalformedEmail}]

\* ToolCall values the callers propose.
ToolCalls ==
    [name : {"get_order_status"}, args : GetOrderStatusArgs]
    \cup [name : {"track_shipment"}, args : TrackShipmentArgs]
    \cup [name : {"issue_refund"}, args : IssueRefundArgs]
    \cup [name : {"update_contact"}, args : UpdateContactArgs]
    \cup [name : {"initiate_password_reset"}, args : InitiatePasswordResetArgs]
    \cup [name : {UnknownToolName}, args : [order_id : {SeedOrderId}]]

\* What the user who owns no order and has no user record proposes.
OtherUserCalls ==
    {k \in ToolCalls :
        \/ k.name \in {"get_order_status", UnknownToolName} /\ k.args.order_id = SeedOrderId
        \/ k.name = "track_shipment" /\ (Truthy(k.args.order_id) \/ k.args.tracking_id = SeedTrackingId)
        \/ k.name = "issue_refund" /\ k.args.order_id = SeedOrderId
              /\ k.args.amount_usd = 1 /\ k.args.reason_len = 20 /\ k.args.idempotency_key # ""
        \/ k.name = "update_contact" /\ k.args.new_email = NewEmail
        \/ k.name = "initiate_password_reset" /\ k.args.email = SeedEmail}

\* The calls of execute: a ToolContext and a ToolCall.
Requests ==
    {r \in [ctx : ToolContext, call : ToolCalls] :
        r.ctx.user_id # SeedUserId => r.call \in OtherUserCalls}

-----------------------------------------------------------------------------
(* State *)

VARIABLES
    settings,       \* Settings
    stats_live,     \* the build: whether retry.statistics is filled (see MaxRetriesExceeded)
    has_audit,      \* ToolExecutor._audit is not None
    registry,       \* ToolRegistry._tools
    orders,         \* InMemoryStore.orders
    shipments,      \* InMemoryStore.shipments
    users,          \* InMemoryStore.users
    audit_lines,    \* the lines of tool_calls.jsonl
    now,            \* datetime.now(UTC), as a day number
    pc,             \* where the execute call in flight is
    ctx,            \* its ToolContext
    call,           \* its ToolCall
    tool,           \* what the registry returned for call.name
    validated,      \* model_validate has run in this call
    attempt_number, \* tenacity's attempt_number
    run_calls,      \* how often tool.run has been called in this call
    timed_out,      \* how many of these calls timed out
    pending,        \* the exception execute is about to raise, or NoExc
    result,         \* the output model execute is about to return
    outcome,        \* what the caller got from the last call: "returned"/"raised"
    raised,         \* the exception that left the last call, NoExc if it returned
    before,         \* orders, users, number of audit lines and day when the call began
    calls_made      \* execute calls begun so far

VARIABLES
    threshold,      \* Settings.confidence_threshold, in hundredths
    r_pc,           \* where CustomerServiceReActAgent.run is
    r_answer,       \* answer (react_agent.py lines 91, 95)
    r_steps,        \* steps, the intermediate steps
    r_conf,         \* conf, the ConfidenceResult that score returned
    r_result,       \* the AgentRunResult that run returned
    score_calls,    \* how often AnswerConfidenceScorer.score was called in the turn
    g_pc,           \* the node of the graph that runs next
    g_path,         \* the nodes the turn has run, in order
    g_state,        \* AgentState
    g_triage        \* what the classification call of triage_node did

VARIABLES
    recover_calls,  \* how often recover_final_answer was called in the turn
    tasks,          \* the execute calls in flight at the same time, by task
    event_args,     \* args of the event handed to ToolAuditLogger.log
    line_args,      \* args of the line that log wrote
    adapter         \* the call of _run_business_tool in flight, or the last one

gateway_vars ==
    <<settings, stats_live, has_audit, registry, orders, shipments, users,
      audit_lines, now, pc, ctx, call, tool, validated, attempt_number, run_calls,
      timed_out, pending, result, outcome, raised, before, calls_made>>

react_vars == <<r_pc, r_answer, r_steps, r_conf, r_result>>

graph_vars == <<g_pc, g_path, g_state, g_triage>>

unit_vars == <<recover_calls, tasks, event_args, line_args, adapter>>

\* What the gateway's steps leave alone: the state of the turns.
turn_vars == <<threshold, score_calls, react_vars, graph_vars, unit_vars>>

vars == <<gateway_vars, turn_vars>>

config_vars == <<settings, stats_live, has_audit, registry, shipments>>

NoCall == [name |-> NONE, args |-> [order_id |-> NONE]]
NoCtx == [user_id |-> NONE, request_id |-> NONE, actor |-> NONE]

Snapshot ==
    [orders |-> orders, users |-> users, lines |-> Len(audit_lines), now |-> now]

\* The gateway after construction.
GatewayInit ==
    /\ \E st \in Startups :
          /\ settings = st.settings
          /\ stats_live = st.stats_live
          /\ has_audit = st.has_audit
          /\ orders = IF st.refunded
                      THEN RefundedEarlier(SeedOrders(st.status))
                      ELSE SeedOrders(st.status)
    /\ registry = build_tool_registry
    /\ shipments = SeedShipments
    /\ users = SeedUsers
    /\ audit_lines = <<>>
    /\ now = settings.refund_window_days
    /\ pc = "idle"
    /\ ctx = NoCtx
    /\ call = NoCall
    /\ tool = NoTool
    /\ validated = FALSE
    /\ attempt_number = 0
    /\ run_calls = 0
    /\ timed_out = 0
    /\ pending = NoExc
    /\ result = NoResult
    /\ outcome = NONE
    /\ raised = NoExc
    /\ before = [orders |-> orders, users |-> users, lines |-> 0, now |-> now]
    /\ calls_made = 0

\* No turn of the ReAct agent is in progress.
ReactIdle ==
    /\ r_pc = "idle"
    /\ r_answer = NONE
    /\ r_steps = <<>>
    /\ r_conf = NONE
    /\ r_result = NONE

\* No turn of the graph is in progress.
GraphIdle ==
    /\ g_pc = "idle"
    /\ g_path = <<>>
    /\ g_state = NONE
    /\ g_triage = NONE

\* No task runs beside the gateway's caller.
TaskIds == {"task_1", "task_2"}
NewTask == [pc |-> "new", ctx |-> NoCtx, call |-> NoCall, raise |-> NoExc,
            result |-> NoResult]

\* No args: nothing was handed to the audit logger.
NoArgs == [t |-> "none"]

\* None where a dict is expected, no observation, and no call of
\* _run_business_tool.
NoDict == [t |-> "None"]
NoObservation == [error |-> NONE, message |-> "", output |-> NoResult]
NoAdapterCall ==
    [pc |-> "idle", ctx |-> NoCtx, tool_name |-> NONE, tool_input |-> <<>>,
     args |-> NoDict, observation |-> NoObservation,
     before |-> [orders |-> <<>>, users |-> <<>>, lines |-> 0, now |-> 0],
     calls |-> 0]

UnitsIdle ==
    /\ recover_calls = 0
    /\ tasks = [t \in TaskIds |-> NewTask]
    /\ event_args = NoArgs
    /\ line_args = NoArgs
    /\ adapter = NoAdapterCall

Init ==
    /\ GatewayInit
    /\ threshold = NONE
    /\ score_calls = 0
    /\ ReactIdle
    /\ GraphIdle
    /\ UnitsIdle

-----------------------------------------------------------------------------
(* ToolExecutor.execute *)

\* Lines 42-54: the call begins, the tool is looked up and the args validated.
Execute(c, k) ==
    /\ pc \in {"idle", "done"}
    /\ calls_made < MaxCalls
    /\ calls_made' = calls_made + 1
    /\ ctx' = c
    /\ call' = k
    /\ before' = Snapshot
    /\ attempt_number' = 1
    /\ run_calls' = 0
    /\ timed_out' = 0
    /\ result' = NoResult
    /\ outcome' = NONE
    /\ raised' = NoExc
    /\ tool' = ToolRegistry_get(registry, k.name)
    /\ IF tool' = NoTool
       THEN /\ pending' = Exc(ToolNotFoundError, "Tool not registered")
            /\ validated' = FALSE
            /\ pc' = "log"
       ELSE LET v == model_validate(tool'.name, k.args)
            IN /\ validated' = TRUE
               /\ pending' = v
               /\ pc' = IF v = NoExc THEN "attempt" ELSE "log"
    /\ UNCHANGED turn_vars
    /\ UNCHANGED <<config_vars, orders, users, audit_lines, now>>

\* One attempt of _execute_with_controls (lines 88-107) and what the retry
\* decorator does with its outcome: return it, re-raise, or sleep and retry.
Attempt ==
    /\ pc = "attempt"
    /\ LET exceeded == MaxRetriesExceeded(settings, stats_live, attempt_number)
           times_out == ~exceeded /\ wait_for_times_out(settings)
           ran == ~exceeded /\ ~times_out
           h == tool_run(tool.name, ctx, call.args, orders, shipments, users,
                         settings, now)
           exc == IF exceeded THEN Exc(ToolTransientError, "Max retries exceeded.")
                  ELSE IF times_out THEN ReclassifyTimeout(Exc(TimeoutError, ""))
                  ELSE h.raise
       IN /\ run_calls' = IF exceeded THEN run_calls ELSE run_calls + 1
          /\ timed_out' = IF times_out THEN timed_out + 1 ELSE timed_out
          /\ orders' = IF ran THEN h.orders ELSE orders
          /\ users' = IF ran THEN h.users ELSE users
          /\ IF exc = NoExc
             THEN /\ result' = h.result
                  /\ pending' = NoExc
                  /\ pc' = "log"
             ELSE /\ result' = NoResult
                  /\ pending' = exc
                  /\ pc' = IF retry_if_exception_type(exc)
                              /\ ~stop_after_attempt(attempt_number)
                           THEN "sleep"
                           ELSE "log"
    /\ UNCHANGED turn_vars
    /\ UNCHANGED <<config_vars, audit_lines, now, ctx, call, tool, validated,
                   attempt_number, outcome, raised, before, calls_made>>

\* wait_exponential: the decorator sleeps, then makes the next attempt.
Sleep ==
    /\ pc = "sleep"
    /\ attempt_number' = attempt_number + 1
    /\ pending' = NoExc
    /\ pc' = "attempt"
    /\ UNCHANGED turn_vars
    /\ UNCHANGED <<config_vars, orders, users, audit_lines, now, ctx, call, tool,
                   validated, run_calls, timed_out, result, outcome, raised, before,
                   calls_made>>

\* Lines 58-66 and 68-80: the audit event, then the return or the re-raise.
\* The write of the audit line succeeds.
Finish ==
    /\ pc = "log"
    /\ audit_lines' =
         IF pending = NoExc
         THEN log_event(has_audit, audit_lines, ctx, call, "success", NONE, NONE)
         ELSE log_event(has_audit, audit_lines, ctx, call, "error",
                        pending.type, pending.message)
    /\ outcome' = IF pending = NoExc THEN "returned" ELSE "raised"
    /\ raised' = pending
    /\ pc' = "done"
    /\ UNCHANGED turn_vars
    /\ UNCHANGED <<config_vars, orders, users, now, ctx, call, tool, validated,
                   attempt_number, run_calls, timed_out, pending, result, before,
                   calls_made>>

\* Time passes between calls: the order, created on day 0, is at the end of
\* the refund window at first, and a day later it is past it.
AdvanceClock ==
    /\ pc \in {"idle", "done"}
    /\ now <= settings.refund_window_days
    /\ now' = now + 1
    /\ UNCHANGED turn_vars
    /\ UNCHANGED <<config_vars, orders, users, audit_lines, pc, ctx, call, tool,
                   validated, attempt_number, run_calls, timed_out, pending,
                   result, outcome, raised, before, calls_made>>

Next ==
    \/ \E r \in Requests : Execute(r.ctx, r.call)
    \/ Attempt
    \/ Sleep
    \/ Finish
    \/ AdvanceClock

Spec == Init /\ [][Next]_vars

\* The exception of a failed write of the audit file.
OSError == "OSError"

\* Lines 58-80 when ToolAuditLogger.log raises.  After a handler that
\* returned, the call of line 58 is inside the try block: its exception is
\* caught at line 68 and logged as the call's error (that second write
\* succeeds or fails too), and the exception leaves execute.  After a tool
\* error, the call of line 72 is inside the except block and its exception
\* leaves execute in place of the tool error.
FinishWriteFails(second_write_ok) ==
    /\ pc = "log"
    /\ has_audit
    /\ pending # NoExc => ~second_write_ok
    /\ LET e == Exc(OSError, "audit write failed")
       IN /\ raised' = e
          /\ audit_lines' =
                IF second_write_ok
                THEN log_event(has_audit, audit_lines, ctx, call, "error",
                               e.type, e.message)
                ELSE audit_lines
    /\ outcome' = "raised"
    /\ pc' = "done"
    /\ UNCHANGED turn_vars
    /\ UNCHANGED <<config_vars, orders, users, now, ctx, call, tool, validated,
                   attempt_number, run_calls, timed_out, pending, result, before,
                   calls_made>>

\* The gateway with an audit file whose writes can fail.
SinkNext ==
    \/ Next
    \/ \E second_write_ok \in BOOLEAN : FinishWriteFails(second_write_ok)

\* Only a gateway with an audit logger writes the file; the store is the
\* seed store.
SinkInit ==
    /\ Init
    /\ has_audit
    /\ orders = SeedOrders("shipped")

SinkSpec == SinkInit /\ [][SinkNext]_vars

-----------------------------------------------------------------------------
(* app/agent/confidence.py *)

\* Confidences are in hundredths: 40 is 0.4.
FallbackWithEvidence == 40
FallbackNoEvidence == 20

\* Field(ge=0.0, le=1.0) of _JudgeOutput.confidence
ConfidenceMin == 0
ConfidenceMax == 100

ParseFailureReason == "Judge parsing failed; falling back to conservative score."

ConfidenceResult(confidence, needs_human, reasons) ==
    [confidence |-> confidence, needs_human |-> needs_human, reasons |-> reasons]

\* _summarize_steps: the text of the evidence; a placeholder line if there
\* are no steps.
summarize_steps(steps) ==
    IF steps = <<>>
    THEN "[no intermediate steps]"
    ELSE "1. tool=... input=... observation=..."

\* json.loads and _JudgeOutput.model_validate accept the reply.
JudgeOutput_validate(reply) ==
    /\ reply.kind = "json"
    /\ reply.confidence >= ConfidenceMin
    /\ reply.confidence <= ConfidenceMax

\* Lines 90-97: the conservative fallback.
score_fallback(steps) ==
    LET evidence == summarize_steps(steps)
    IN ConfidenceResult(IF Truthy(evidence) THEN FallbackWithEvidence
                        ELSE FallbackNoEvidence,
                        TRUE, <<ParseFailureReason>>)

\* AnswerConfidenceScorer.score, given what the judge call did: the call
\* itself (line 79) is outside the try block, so its failure is raised.
AnswerConfidenceScorer_score(steps, reply) ==
    IF reply.kind = "fail"
    THEN [raise |-> TRUE, conf |-> NONE]
    ELSE IF JudgeOutput_validate(reply)
    THEN [raise |-> FALSE,
          conf |-> ConfidenceResult(reply.confidence, reply.needs_human, reply.reasons)]
    ELSE [raise |-> FALSE, conf |-> score_fallback(steps)]

\* What the judge call does: a reply that is JSON of the schema's shape, with
\* a confidence in or out of range, a reply that is not such JSON, or a
\* failure of the call.
JudgeReplies ==
    [kind : {"json"}, confidence : {-10, 0, 30, 40, 75, 90, 100, 150},
     needs_human : BOOLEAN, reasons : {<<"Supported by the tool output.">>}]
    \cup {[kind |-> "text"], [kind |-> "fail"]}

-----------------------------------------------------------------------------
(* app/agent/react_agent.py *)

\* Settings.confidence_threshold values, in hundredths.
Thresholds == {40, 75}

ApologyAnswer == "I apologize, but I encountered an error while processing your request."

SafeAnswer == "I'm not fully confident I can answer that correctly ..."

AgentRunResult(answer, confidence, needs_human, reasons, intermediate_steps) ==
    [answer |-> answer, confidence |-> confidence, needs_human |-> needs_human,
     reasons |-> reasons, intermediate_steps |-> intermediate_steps]

\* Longest list of intermediate steps of a turn.
MaxSteps == 2

\* An intermediate step: an action and its observation.
StepValues == {[tool |-> "get_order_status", observation |-> "shipped"]}

StepLists == UNION {[1..n -> StepValues] : n \in 0..MaxSteps}

\* What agent_executor.ainvoke does: it returns output and intermediate
\* steps, or raises, with or without intermediate_steps on the exception.
AgentExecutorOutcomes ==
    [kind : {"returns"},
     output : {"Your order has shipped.", "",
               "Agent stopped due to iteration limit or time limit."},
     steps : StepLists]
    \cup [kind : {"raises"}, has_steps : BOOLEAN, steps : StepLists]

\* finalize.py lines 24-37: needs_recovery, on the answers of the model: the
\* answer is empty or has one of the stop phrases in it.
StopMarker == "Agent stopped due to iteration limit or time limit."
needs_recovery(answer) == answer = "" \/ answer = StopMarker

\* A gate that believes the scorer's own needs_human.
confidence_gate_trusting(answer, steps, conf, t) ==
    AgentRunResult(IF conf.confidence < t THEN SafeAnswer ELSE answer,
                   conf.confidence, conf.needs_human, conf.reasons, steps)

\* Lines 107-128: the confidence gate.
confidence_gate(answer, steps, conf, t) ==
    IF conf.confidence < t
    THEN AgentRunResult(SafeAnswer, conf.confidence, TRUE, conf.reasons, steps)
    ELSE AgentRunResult(answer, conf.confidence, conf.needs_human, conf.reasons, steps)

\* A turn of the agent begins, on a process with no turn in progress.
ReactInit ==
    /\ threshold \in Thresholds
    /\ score_calls = 0
    /\ ReactIdle

\* Lines 89-98: the agent loop has ended.
ReactInvoke(out) ==
    /\ r_pc = "idle"
    /\ r_answer' = IF out.kind = "returns" THEN out.output ELSE ApologyAnswer
    /\ r_steps' = IF out.kind = "returns" \/ out.has_steps THEN out.steps ELSE <<>>
    /\ r_pc' = "score"
    /\ UNCHANGED <<gateway_vars, unit_vars, graph_vars, threshold, score_calls, r_conf, r_result>>

\* Lines 101-105: the scorer is called; what it raises leaves run.
ReactScore(reply) ==
    /\ r_pc = "score"
    /\ score_calls' = score_calls + 1
    /\ LET sc == AnswerConfidenceScorer_score(r_steps, reply)
       IN /\ r_conf' = sc.conf
          /\ r_pc' = IF sc.raise THEN "raised" ELSE "gate"
    /\ UNCHANGED <<gateway_vars, unit_vars, graph_vars, threshold, r_answer, r_steps, r_result>>

\* Lines 107-128: run returns its result.
ReactReturn ==
    /\ r_pc = "gate"
    /\ r_result' = confidence_gate(r_answer, r_steps, r_conf, threshold)
    /\ r_pc' = "returned"
    /\ UNCHANGED <<gateway_vars, unit_vars, graph_vars, threshold, score_calls, r_answer,
                   r_steps, r_conf>>

\* The gateway of a process in whose turns no tool call is in flight.
GatewayQuiet ==
    /\ GatewayInit
    /\ settings.tool_max_retries = 2
    /\ ~stats_live
    /\ has_audit
    /\ orders = SeedOrders("shipped")

AgentInit ==
    /\ GatewayQuiet
    /\ settings.tool_timeout_seconds > 0
    /\ ReactInit
    /\ GraphIdle
    /\ UnitsIdle

AgentNext ==
    \/ \E out \in AgentExecutorOutcomes : ReactInvoke(out)
    \/ \E reply \in JudgeReplies : ReactScore(reply)
    \/ ReactReturn

AgentSpec == AgentInit /\ [][AgentNext]_vars

-----------------------------------------------------------------------------
(* app/graph: state.py, nodes, builder.py *)

Intents == {"policy_query", "account_action", "general"}

HumanMessage(content) == [type |-> "human", content |-> content]

AIMessage(content, tool_calls) ==
    [type |-> "ai", content |-> content, tool_calls |-> tool_calls]

\* An observation that names the first call of the step, whichever call it
\* answers.
ToolMessage_first_call_id(tool_call_id, name, content) ==
    [type |-> "tool", tool_call_id |-> "call_1", name |-> name, content |-> content]

ToolMessage(tool_call_id, name, content) ==
    [type |-> "tool", tool_call_id |-> tool_call_id, name |-> name, content |-> content]

\* hasattr(last_msg, "tool_calls") and last_msg.tool_calls
HasToolCalls(msg) == msg.type = "ai" /\ msg.tool_calls # <<>>

Last(seq) == seq[Len(seq)]

\* scripts/chat_graph.py lines 50-58: the input state of a turn.
GraphInputs(user_id, user_input) ==
    [messages |-> <<HumanMessage(user_input)>>,
     user_id |-> user_id,
     request_id |-> "req_1",
     intent |-> "general",
     retrieved_docs |-> <<>>,
     confidence_score |-> 100,
     needs_human_review |-> FALSE,
     final_answer |-> NONE]

UserInputs == {"Where is my order?", "What is the refund policy?"}

\* What the classification call does: it returns a TriageOutput, returns
\* something that is not one (an intent outside the Literal, or nothing), or
\* fails.
TriageReplies ==
    [kind : {"reply"}, intent : Intents \cup {"billing", NONE}]
    \cup {[kind |-> "fail", intent |-> NONE]}

\* A triage that takes the intent from whatever came back.
triage_intent_unguarded(reply) == reply.intent

\* triage_node lines 52-57: the intent of the reply, "general" if the call
\* or its parsing raised.
triage_intent(reply) ==
    IF reply.kind = "reply" /\ reply.intent \in Intents
    THEN reply.intent
    ELSE "general"

\* A routing that sends every turn through retrieval.
route_triage_always_retrieval(state) == "retrieval"

\* build_graph lines 40-43
route_triage(state) ==
    IF state.intent = "policy_query" THEN "retrieval" ELSE "agent"

\* build_graph lines 58-62
route_agent(state) ==
    IF HasToolCalls(Last(state.messages)) THEN "tools" ELSE "finalize"

\* What retriever.retrieve returns.
RetrievedHits == {<<>>, <<"refund_policy.md#1">>}

\* The tool calls a response of the reasoning service proposes.
StatusToolCall ==
    [name |-> "get_order_status", args |-> [order_id |-> SeedOrderId], id |-> "call_1"]

RefundToolCall(id) ==
    [name |-> "issue_refund",
     args |-> [order_id |-> SeedOrderId, amount_usd |-> TotalAmount,
               reason_len |-> 20, idempotency_key |-> RefundKey],
     id |-> id]

UnknownToolCall ==
    [name |-> UnknownToolName, args |-> [order_id |-> SeedOrderId], id |-> "call_1"]

\* A call whose args fail validation, and a refund above the cap.
MalformedToolCall ==
    [name |-> "get_order_status", args |-> [order_id |-> MalformedOrderId],
     id |-> "call_2"]

OverCapToolCall ==
    [name |-> "issue_refund",
     args |-> [order_id |-> SeedOrderId, amount_usd |-> MaxAmount,
               reason_len |-> 20, idempotency_key |-> NONE],
     id |-> "call_3"]

ToolCallLists ==
    {<<StatusToolCall>>,
     <<RefundToolCall("call_1"), RefundToolCall("call_2")>>,
     <<UnknownToolCall>>,
     <<UnknownToolCall, MalformedToolCall, OverCapToolCall,
       [StatusToolCall EXCEPT !.id = "call_4"]>>}

\* What chain.ainvoke of agent_node returns: a plain answer, or tool calls.
AgentResponses ==
    {AIMessage(c, <<>>) : c \in {"Your order has shipped.", ""}}
    \cup {AIMessage("", tcs) : tcs \in ToolCallLists}

\* ToolExecution steps of one turn that the model explores.
MaxToolSteps == 2

\* Settings.agent_max_iterations (react_agent.py line 83).
AgentMaxIterations == 1

\* ToolExecutor.execute as one step: what a call does to the orders, the
\* users and the audit lines, and what it raises or returns.  With a timeout
\* that no handler meets, the handler is never run and the exception is the
\* one of the last attempt.
ToolExecutor_execute(c, k, os, sh, us, lines, s, live, has_log, today) ==
    LET t == ToolRegistry_get(build_tool_registry, k.name)
        v == IF t = NoTool THEN NoExc ELSE model_validate(t.name, k.args)
        last_exc == IF MaxRetriesExceeded(s, live, StopAfterAttempt)
                    THEN Exc(ToolTransientError, "Max retries exceeded.")
                    ELSE ReclassifyTimeout(Exc(TimeoutError, ""))
        h == IF t = NoTool
             THEN Raises(Exc(ToolNotFoundError, "Tool not registered"), os, us)
             ELSE IF v # NoExc THEN Raises(v, os, us)
             ELSE IF wait_for_times_out(s) THEN Raises(last_exc, os, us)
             ELSE tool_run(t.name, c, k.args, os, sh, us, s, today)
        call_k == [name |-> k.name, args |-> k.args]
    IN [raise |-> h.raise, result |-> h.result, orders |-> h.orders, users |-> h.users,
        lines |-> IF h.raise = NoExc
                  THEN log_event(has_log, lines, c, call_k, "success", NONE, NONE)
                  ELSE log_event(has_log, lines, c, call_k, "error",
                                 h.raise.type, h.raise.message)]

\* A step that ends at the first call that fails: the calls after it are
\* not made.
RECURSIVE RunToolCalls_stop_at_error(_, _, _, _, _, _)
RunToolCalls_stop_at_error(tool_calls, c, os, us, lines, msgs) ==
    IF tool_calls = <<>>
    THEN [messages |-> msgs, lines |-> lines]
    ELSE LET k == Head(tool_calls)
             x == ToolExecutor_execute(c, k, os, shipments, us, lines, settings,
                                       stats_live, TRUE, now)
         IN IF x.raise = NoExc
            THEN RunToolCalls_stop_at_error(
                     Tail(tool_calls), c, x.orders, x.users, x.lines,
                     Append(msgs, ToolMessage(k.id, k.name, x.result)))
            ELSE [messages |->
                      Append(msgs, ToolMessage(k.id, k.name,
                                 [error |-> x.raise.type, message |-> x.raise.message])),
                  lines |-> x.lines]

\* tools_node lines 44-70: the calls of the last message, one after the
\* other, on the store that this step built; one ToolMessage for each.
RECURSIVE RunToolCalls(_, _, _, _, _, _)
RunToolCalls(tool_calls, c, os, us, lines, msgs) ==
    IF tool_calls = <<>>
    THEN [messages |-> msgs, lines |-> lines]
    ELSE LET k == Head(tool_calls)
             x == ToolExecutor_execute(c, k, os, shipments, us, lines, settings,
                                       stats_live, TRUE, now)
             content == IF x.raise = NoExc
                        THEN x.result
                        ELSE [error |-> x.raise.type, message |-> x.raise.message]
         IN RunToolCalls(Tail(tool_calls), c, x.orders, x.users, x.lines,
                         Append(msgs, ToolMessage(k.id, k.name, content)))

\* How often a node is in a path.
Count(path, node) == Cardinality({i \in 1..Len(path) : path[i] = node})

\* A turn begins: graph.astream(inputs), on a process with no turn in progress.
GraphInit ==
    /\ \E u \in UserIds, m \in UserInputs : g_state = GraphInputs(u, m)
    /\ g_pc = "triage"
    /\ g_path = <<>>
    /\ g_triage = NONE
    /\ threshold \in Thresholds
    /\ score_calls = 0
    /\ ReactIdle

\* triage_node, then route_triage.
TriageNode(reply) ==
    /\ g_pc = "triage"
    /\ g_triage' = reply
    /\ g_state' = [g_state EXCEPT !.intent = triage_intent(reply)]
    /\ g_pc' = route_triage(g_state')
    /\ g_path' = Append(g_path, "triage")
    /\ UNCHANGED <<gateway_vars, unit_vars, react_vars, threshold, score_calls>>

\* retrieval_node, then the edge to agent.
RetrievalNode(hits) ==
    /\ g_pc = "retrieval"
    /\ g_state' = [g_state EXCEPT !.retrieved_docs = hits]
    /\ g_pc' = "agent"
    /\ g_path' = Append(g_path, "retrieval")
    /\ UNCHANGED <<gateway_vars, unit_vars, react_vars, threshold, score_calls, g_triage>>

\* agent_node, then route_agent.
AgentNode(response) ==
    /\ g_pc = "agent"
    /\ HasToolCalls(response) => Count(g_path, "tools") < MaxToolSteps
    /\ g_state' = [g_state EXCEPT !.messages = Append(@, response)]
    /\ g_pc' = route_agent(g_state')
    /\ g_path' = Append(g_path, "agent")
    /\ UNCHANGED <<gateway_vars, unit_vars, react_vars, threshold, score_calls, g_triage>>

\* retrieval_node or agent_node raises (the retriever or the reasoning
\* service fails): the exception leaves graph.astream and the turn is over.
NodeRaises ==
    /\ g_pc \in {"retrieval", "agent"}
    /\ g_path' = Append(g_path, g_pc)
    /\ g_pc' = "aborted"
    /\ UNCHANGED <<gateway_vars, unit_vars, react_vars, threshold, score_calls, g_state, g_triage>>

\* tools_node, then the edge to agent.
ToolsNode ==
    /\ g_pc = "tools"
    /\ LET c == [user_id |-> g_state.user_id, request_id |-> g_state.request_id,
                 actor |-> "customer"]
           r == RunToolCalls(Last(g_state.messages).tool_calls, c,
                             SeedOrders("shipped"), SeedUsers, audit_lines, <<>>)
       IN /\ g_state' = [g_state EXCEPT !.messages = @ \o r.messages]
          /\ audit_lines' = r.lines
    /\ g_pc' = "agent"
    /\ g_path' = Append(g_path, "tools")
    /\ UNCHANGED <<settings, stats_live, has_audit, registry, orders, shipments, users,
                   now, pc, ctx, call, tool, validated, attempt_number, run_calls,
                   timed_out, pending, result, outcome, raised, before, calls_made,
                   react_vars, unit_vars, threshold, score_calls, g_triage>>

\* finalize_node, then the edge to END.
FinalizeNode ==
    /\ g_pc = "finalize"
    /\ g_state' = [g_state EXCEPT !.final_answer = Last(g_state.messages).content]
    /\ g_pc' = "end"
    /\ g_path' = Append(g_path, "finalize")
    /\ UNCHANGED <<gateway_vars, unit_vars, react_vars, threshold, score_calls, g_triage>>

GraphSpecInit ==
    /\ GatewayQuiet
    /\ GraphInit
    /\ UnitsIdle

GraphNext ==
    \/ \E reply \in TriageReplies : TriageNode(reply)
    \/ \E hits \in RetrievedHits : RetrievalNode(hits)
    \/ \E response \in AgentResponses : AgentNode(response)
    \/ NodeRaises
    \/ ToolsNode
    \/ FinalizeNode

GraphSpec == GraphSpecInit /\ [][GraphNext]_vars

-----------------------------------------------------------------------------
(* Properties of the gateway *)

\* The execute call in flight, or the last one, was for a registered tool.
Registered == pc # "idle" /\ call.name \in ToolRegistry_keys(registry)

\* The handler's body ran in this call: tool.run was called and not cancelled.
HandlerRan == run_calls > timed_out

\* The audit lines this call has added.
NewLines == Len(audit_lines) - before.lines

StoreUnchanged == orders = before.orders /\ users = before.users

\* C1: for every registered tool, args that fail the tool's input schema make
\* execute raise ToolValidationError, and tool.run is called zero times.
C1_InvalidArgsNeverReachHandler ==
    (Registered /\ ~input_model(call.name, call.args)) =>
        /\ run_calls = 0
        /\ pc \in {"log", "done"}
        /\ pending.type = ToolValidationError
        /\ pc = "done" => outcome = "raised"

C1_Witness ==
    /\ pc = "done"
    /\ call.name = "issue_refund"
    /\ ~input_model(call.name, call.args)
    /\ outcome = "raised"
    /\ run_calls = 0

C3_OneAuditEventPerCall ==
    has_audit =>
        /\ pc \in {"attempt", "sleep", "log"} => NewLines = 0
        /\ pc = "done" => NewLines = 1
        /\ Len(audit_lines) = calls_made - (IF pc \in {"attempt", "sleep", "log"} THEN 1 ELSE 0)

C3_Witness ==
    /\ has_audit
    /\ pc = "done"
    /\ attempt_number = StopAfterAttempt
    /\ run_calls = StopAfterAttempt
    /\ NewLines = 1
    /\ calls_made = 2
    /\ audit_lines[1].status = "error"

\* C4 as stated: a handler that always times out is called exactly
\* 1 + tool_max_retries times in one execute call, which then raises
\* ToolTransientError.
C4_AttemptsEqualConfiguredBudget ==
    (pc = "done" /\ timed_out > 0 /\ timed_out = run_calls) =>
        /\ run_calls = 1 + settings.tool_max_retries
        /\ pending.type = ToolTransientError

\* C5: only ToolTransientError is retried: a ToolValidationError, a
\* ToolPolicyError or a ToolNotFoundError ends the call on its first
\* occurrence, with the handler called at most once.
C5_OnlyTransientIsRetried ==
    /\ pc = "sleep" => pending.type = ToolTransientError
    /\ (pc \in {"log", "done"}
        /\ pending.type \in {ToolValidationError, ToolPolicyError, ToolNotFoundError}) =>
          /\ run_calls <= 1
          /\ attempt_number = 1
          /\ pc = "done" => outcome = "raised"

C5_Witness ==
    /\ pc = "done"
    /\ pending.type = ToolPolicyError
    /\ run_calls = 1
    /\ outcome = "raised"

\* C6: a handler call that exceeds the timeout is reclassified as
\* ToolTransientError and retried; the caller never gets a raw TimeoutError.
C6_TimeoutBecomesTransient ==
    /\ pending.type # TimeoutError
    /\ (timed_out > 0 /\ pc \in {"log", "done"}) =>
          /\ pending.type = ToolTransientError
          /\ attempt_number > 1
    /\ (timed_out > 0 /\ attempt_number < StopAfterAttempt) => pc \in {"sleep", "attempt"}

C6_Witness ==
    /\ pc = "done"
    /\ timed_out > 1
    /\ outcome = "raised"
    /\ pending.type = ToolTransientError

\* C7 as stated: refunded_amount <= total_amount for every order in every
\* reachable state.
C7_RefundedNeverExceedsTotal ==
    \A o \in DOMAIN orders :
        orders[o].refunded_amount_usd <= orders[o].total_amount_usd

\* The issue_refund call in flight, or the last one, reached the handler's
\* body, and the order it names exists.
RefundCallRan ==
    /\ call.name = "issue_refund"
    /\ tool = FactoryTool("issue_refund")
    /\ HandlerRan
    /\ HasKey(before.orders, call.args.order_id)

\* C8: a key recorded on an order never causes a second deduction: no step
\* of a call that carries a key the order has recorded changes the order.
C8_RecordedKeyNeverDeductsAgain ==
    [][(/\ call.name = "issue_refund"
        /\ HasKey(orders, call.args.order_id)
        /\ call.args.idempotency_key \in
              orders[call.args.order_id].refund_idempotency_keys)
       => orders' = orders]_vars

C8_Witness ==
    /\ pc = "done"
    /\ RefundCallRan
    /\ call.args.idempotency_key \in
          before.orders[call.args.order_id].refund_idempotency_keys
    /\ outcome = "returned"
    /\ result.refund_id = "refund_duplicate"
    /\ orders[call.args.order_id].refunded_amount_usd = call.args.amount_usd

\* C9 as stated: a call by the order's owner, within the refund window and
\* the cap, that carries a key already recorded on the order returns the
\* duplicate success with refunded_amount_usd = 0 and changes nothing, also
\* when its amount exceeds what is left to refund.
C9_RecordedKeyReturnsDuplicate ==
    (/\ pc = "done"
     /\ RefundCallRan
     /\ call.args.idempotency_key \in
           before.orders[call.args.order_id].refund_idempotency_keys
     /\ ctx.user_id = before.orders[call.args.order_id].user_id
     /\ before.now - before.orders[call.args.order_id].created_at <= settings.refund_window_days
     /\ call.args.amount_usd <= settings.refund_max_amount_usd)
    => /\ outcome = "returned"
       /\ result.refund_id = "refund_duplicate"
       /\ result.refunded_amount_usd = 0
       /\ StoreUnchanged

\* C10 as stated: an issue_refund call whose amount exceeds the configured
\* maximum, or exceeds total_amount - refunded_amount of the order, is
\* rejected with ToolPolicyError and leaves the order unchanged.
C10_ExcessiveAmountRejected ==
    (/\ pc = "done"
     /\ RefundCallRan
     /\ LET order == before.orders[call.args.order_id]
        IN \/ call.args.amount_usd > settings.refund_max_amount_usd
           \/ call.args.amount_usd > order.total_amount_usd - order.refunded_amount_usd)
    => /\ outcome = "raised"
       /\ pending.type = ToolPolicyError
       /\ orders = before.orders

\* The orders a call addresses: the one its order_id names and, for
\* track_shipment, the one whose shipment its tracking_id names.
TargetOrders ==
    {o \in DOMAIN before.orders :
        \/ call.name \in {"get_order_status", "issue_refund"} /\ call.args.order_id = o
        \/ /\ call.name = "track_shipment"
           /\ \/ call.args.order_id = o
              \/ call.args.tracking_id = before.orders[o].tracking_id}

\* C11 as stated: a get_order_status, issue_refund or track_shipment call
\* whose target order belongs to another user than ctx.user_id is rejected
\* with ToolPolicyError, returns no data and changes nothing, whether the
\* shipment is addressed by order_id or by tracking_id.
C11_OtherUsersOrderRejected ==
    (/\ pc = "done"
     /\ HandlerRan
     /\ \E o \in TargetOrders : before.orders[o].user_id # ctx.user_id)
    => /\ outcome = "raised"
       /\ pending.type = ToolPolicyError
       /\ result = NoResult
       /\ StoreUnchanged

\* The issue_refund call in flight, or the last one, names an order of the
\* store.
RefundCallOnOrder ==
    /\ pc \in {"attempt", "sleep", "log", "done"}
    /\ call.name = "issue_refund"
    /\ HasKey(before.orders, call.args.order_id)

\* C12: an issue_refund call against a cancelled order is rejected and leaves
\* the order unchanged, whatever its amount and whether or not its key is
\* recorded on the order: no such call returns a result, and every such call
\* that reaches the handler raises ToolPolicyError.
C12_CancelledOrderNeverRefunded ==
    (RefundCallOnOrder /\ before.orders[call.args.order_id].status = "cancelled")
    => /\ orders = before.orders
       /\ result = NoResult
       /\ pc \in {"log", "done"} => pending # NoExc
       /\ pc = "done" => outcome = "raised"
       /\ HandlerRan => pending.type = ToolPolicyError

C12_Witness ==
    /\ pc = "done"
    /\ RefundCallRan
    /\ before.orders[call.args.order_id].status = "cancelled"
    /\ call.args.idempotency_key \in
          before.orders[call.args.order_id].refund_idempotency_keys
    /\ ctx.user_id = before.orders[call.args.order_id].user_id
    /\ before.now - before.orders[call.args.order_id].created_at <= settings.refund_window_days
    /\ call.args.amount_usd <= settings.refund_max_amount_usd
    /\ call.args.amount_usd <= before.orders[call.args.order_id].total_amount_usd
                               - before.orders[call.args.order_id].refunded_amount_usd
    /\ outcome = "raised"
    /\ pending.message = "Cannot refund a cancelled order via this tool."

\* C13: an issue_refund call made when now - order.created_at exceeds
\* refund_window_days is rejected and leaves the order unchanged: no such
\* call returns a result, and every such call that reaches the handler raises
\* ToolPolicyError.  A call made exactly at the boundary is not rejected by
\* the window check.
C13_RefundWindow ==
    RefundCallOnOrder =>
        LET age == before.now - before.orders[call.args.order_id].created_at
        IN /\ age > settings.refund_window_days =>
                /\ orders = before.orders
                /\ result = NoResult
                /\ pc \in {"log", "done"} => pending # NoExc
                /\ pc = "done" => outcome = "raised"
                /\ HandlerRan => pending.type = ToolPolicyError
           /\ age = settings.refund_window_days =>
                pending.message # "Refund window expired."

C13_Witness ==
    /\ pc = "done"
    /\ RefundCallRan
    /\ before.now - before.orders[call.args.order_id].created_at > settings.refund_window_days
    /\ ctx.user_id = before.orders[call.args.order_id].user_id
    /\ outcome = "raised"
    /\ pending.message = "Refund window expired."
    /\ calls_made = 2
    /\ orders[call.args.order_id].refunded_amount_usd > 0

-----------------------------------------------------------------------------
(* Properties of the agent's turn *)

\* C14: when the scorer's confidence is below the threshold, the turn's
\* answer is the safe-fallback message and needs_human is true whatever the
\* scorer said; otherwise the produced answer and the scorer's needs_human
\* and reasons are kept.  The confidence and the reasons are the scorer's in
\* both cases.
C14_ConfidenceGate ==
    r_pc = "returned" =>
        /\ r_result.confidence = r_conf.confidence
        /\ r_result.reasons = r_conf.reasons
        /\ IF r_conf.confidence < threshold
           THEN /\ r_result.answer = SafeAnswer
                /\ r_result.needs_human
           ELSE /\ r_result.answer = r_answer
                /\ r_result.needs_human = r_conf.needs_human

C14_Witness ==
    /\ r_pc = "returned"
    /\ r_conf.confidence = 30
    /\ threshold = 75
    /\ ~r_conf.needs_human
    /\ r_answer = "Your order has shipped."
    /\ r_result.answer = SafeAnswer
    /\ r_result.needs_human

\* C16 as stated: when the judge's reply cannot be parsed into the schema,
\* score returns confidence 0.4 if the evidence trail has any evidence and
\* 0.2 if it is empty, with needs_human true and the parse-failure reason.
C16_ParseFailureFallback ==
    (r_pc \in {"gate", "returned"} /\ r_conf.reasons = <<ParseFailureReason>>) =>
        /\ r_conf.confidence =
              IF r_steps # <<>> THEN FallbackWithEvidence ELSE FallbackNoEvidence
        /\ r_conf.needs_human

\* C17 as stated: whatever the judge call does, score returns a
\* ConfidenceResult with a confidence in [0, 1] and never raises.
C17_ScorerNeverRaises ==
    /\ r_pc # "raised"
    /\ r_pc \in {"gate", "returned"} =>
          /\ r_conf.confidence >= ConfidenceMin
          /\ r_conf.confidence <= ConfidenceMax

-----------------------------------------------------------------------------
(* Properties of the graph's turn *)

\* The turn is over: the graph reached END, or an exception left it.
TurnOver == g_pc \in {"end", "aborted"}

\* The messages the agent node has added, in order: the j-th is the response
\* of the j-th Reasoning step that returned.
Responses == SelectSeq(g_state.messages, LAMBDA m : m.type = "ai")

\* The number of Reasoning steps among the first i steps of the turn.
AgentStepsUpTo(i) == Cardinality({j \in 1..i : g_path[j] = "agent"})

\* C15 as stated, for the graph: a turn that reaches the terminal state has
\* had its answer scored exactly once.
C15_EveryTurnIsScored ==
    g_pc = "end" => score_calls = 1

\* C18 as stated: every turn visits Triage, then Retrieval and Reasoning or
\* Reasoning, then (ToolExecution, Reasoning) pairs, then Finalize, then
\* Terminal; ToolExecution follows only a Reasoning step that proposed tool
\* calls and is followed by Reasoning; Finalize follows only a Reasoning step
\* that proposed none and is visited exactly once.
C18_StateOrder ==
    /\ g_path # <<>> => g_path[1] = "triage"
    /\ \A i \in 2..Len(g_path) :
          /\ g_path[i] # "triage"
          /\ g_path[i] = "retrieval" => i = 2
          /\ g_path[i] = "agent" => g_path[i - 1] \in {"triage", "retrieval", "tools"}
          /\ g_path[i] = "tools" =>
                /\ g_path[i - 1] = "agent"
                /\ HasToolCalls(Responses[AgentStepsUpTo(i)])
                /\ IF i = Len(g_path) THEN g_pc = "agent" ELSE g_path[i + 1] = "agent"
          /\ g_path[i] = "finalize" =>
                /\ g_path[i - 1] = "agent"
                /\ ~HasToolCalls(Responses[AgentStepsUpTo(i)])
                /\ i = Len(g_path)
    /\ TurnOver => Last(g_path) = "finalize" /\ Count(g_path, "finalize") = 1

\* C19: Retrieval runs only if the triaged intent is policy_query.  For the
\* other intents the turn goes from Triage to Reasoning and retrieved_docs
\* stays empty; for policy_query Retrieval runs once, right after Triage and
\* before the first Reasoning step.
C19_RetrievalOnlyForPolicyQuery ==
    g_path # <<>> =>
        IF g_state.intent = "policy_query"
        THEN /\ Len(g_path) = 1 => g_pc = "retrieval"
             /\ Len(g_path) >= 2 => g_path[2] = "retrieval"
             /\ Count(g_path, "retrieval") <= 1
             /\ \A i \in 1..Len(g_path) : g_path[i] = "agent" => i > 2
        ELSE /\ Count(g_path, "retrieval") = 0
             /\ g_pc # "retrieval"
             /\ Len(g_path) = 1 => g_pc = "agent"
             /\ Len(g_path) >= 2 => g_path[2] = "agent"
             /\ g_state.retrieved_docs = <<>>

C19_Witness ==
    /\ g_pc = "end"
    /\ g_state.intent = "policy_query"
    /\ g_path[2] = "retrieval"
    /\ g_path[3] = "agent"
    /\ Count(g_path, "retrieval") = 1
    /\ Count(g_path, "agent") > 1
    /\ g_state.retrieved_docs # <<>>

\* C20: whatever the classification call does, the intent after Triage is
\* one of the three intents, "general" if the call failed or returned no
\* valid classification, and the turn goes on to Retrieval or Reasoning.
C20_TriageFailureDefaultsToGeneral ==
    /\ g_state.intent \in Intents
    /\ g_path # <<>> =>
          /\ g_state.intent = IF g_triage.kind = "reply" /\ g_triage.intent \in Intents
                              THEN g_triage.intent
                              ELSE "general"
          /\ Len(g_path) = 1 => g_pc \in {"retrieval", "agent"}
    /\ g_path = <<>> => g_pc = "triage"

C20_Witness ==
    /\ g_pc = "end"
    /\ g_triage.kind = "fail"
    /\ g_state.intent = "general"
    /\ g_path[2] = "agent"
    /\ g_state.final_answer = "Your order has shipped."

-----------------------------------------------------------------------------
(* The registry from its construction on *)

\* The process before build_tool_registry has registered anything: the
\* registry is empty and the gateway takes no call yet.
RegistryInit ==
    /\ settings \in SettingsValues
    /\ settings.tool_max_retries = 2
    /\ stats_live = FALSE
    /\ has_audit = TRUE
    /\ orders = SeedOrders("shipped")
    /\ registry = ToolRegistry_init
    /\ shipments = SeedShipments
    /\ users = SeedUsers
    /\ audit_lines = <<>>
    /\ now = settings.refund_window_days
    /\ pc = "startup"
    /\ ctx = NoCtx
    /\ call = NoCall
    /\ tool = NoTool
    /\ validated = FALSE
    /\ attempt_number = 0
    /\ run_calls = 0
    /\ timed_out = 0
    /\ pending = NoExc
    /\ result = NoResult
    /\ outcome = NONE
    /\ raised = NoExc
    /\ before = [orders |-> orders, users |-> users, lines |-> 0, now |-> now]
    /\ calls_made = 0
    /\ threshold = NONE
    /\ score_calls = 0
    /\ ReactIdle
    /\ GraphIdle
    /\ UnitsIdle

\* registry.register(tool) at startup: the next tool of the factory, or a
\* tool whose name is registered already.
Register(t) ==
    /\ pc = "startup"
    /\ \/ t.name \in ToolRegistry_keys(registry)
       \/ /\ Len(registry) < Len(FactoryOrder)
          /\ t = FactoryTool(FactoryOrder[Len(registry) + 1])
    /\ registry' = ToolRegistry_register(registry, t)
    /\ UNCHANGED turn_vars
    /\ UNCHANGED <<settings, stats_live, has_audit, shipments, orders, users,
                   audit_lines, now, pc, ctx, call, tool, validated, attempt_number,
                   run_calls, timed_out, pending, result, outcome, raised, before,
                   calls_made>>

\* build_tool_registry returns: the gateway is constructed on the registry
\* and takes calls.
StartupDone ==
    /\ pc = "startup"
    /\ ToolRegistry_keys(registry) = ToolName
    /\ pc' = "idle"
    /\ UNCHANGED turn_vars
    /\ UNCHANGED <<config_vars, orders, users, audit_lines, now, ctx, call, tool,
                   validated, attempt_number, run_calls, timed_out, pending, result,
                   outcome, raised, before, calls_made>>

\* The calls made on the registry: one of each tool and one of a name that
\* is not registered, by either user.
RegistryRequests == {r \in Requests : r.call \in OtherUserCalls}

RegistryNext ==
    \/ \E t \in ToolInstances : Register(t)
    \/ StartupDone
    \/ \E r \in RegistryRequests : Execute(r.ctx, r.call)
    \/ Attempt
    \/ Sleep
    \/ Finish

RegistrySpec == RegistryInit /\ [][RegistryNext]_vars

-----------------------------------------------------------------------------
(* Two execute calls in flight at the same time *)

\* The calls the tasks make: refunds by the owner of the seed order.
ConcurrentRequests ==
    {r \in Requests : r.call.name = "issue_refund" /\ r.ctx.user_id = SeedUserId}

\* The process with a timeout that the handlers meet, and no call begun.
ConcurrentInit ==
    /\ Init
    /\ GatewayQuiet
    /\ settings.tool_timeout_seconds > 0

\* execute lines 42-54 in task t: lookup and validation, up to the await of
\* _execute_with_controls.  asyncio.wait_for may hand the handler to a task
\* of its own, so that another task runs before the handler does.
TaskBegin(t, r) ==
    /\ tasks[t].pc = "new"
    /\ LET tl == ToolRegistry_get(registry, r.call.name)
           v == IF tl = NoTool
                THEN Exc(ToolNotFoundError, "Tool not registered")
                ELSE model_validate(tl.name, r.call.args)
       IN tasks' = [tasks EXCEPT ![t] =
                       [pc |-> IF v = NoExc THEN "run" ELSE "log",
                        ctx |-> r.ctx, call |-> r.call, raise |-> v,
                        result |-> NoResult]]
    /\ UNCHANGED <<gateway_vars, threshold, score_calls, react_vars, graph_vars,
                   recover_calls, event_args, line_args, adapter>>

\* tool.run in task t.  The handlers have no await: the event loop runs the
\* body from its first line to its return before it runs any other task.
TaskRun(t) ==
    /\ tasks[t].pc = "run"
    /\ LET h == tool_run(tasks[t].call.name, tasks[t].ctx, tasks[t].call.args,
                         orders, shipments, users, settings, now)
       IN /\ orders' = h.orders
          /\ users' = h.users
          /\ tasks' = [tasks EXCEPT ![t].pc = "log", ![t].raise = h.raise,
                                    ![t].result = h.result]
    /\ UNCHANGED <<config_vars, audit_lines, now, pc, ctx, call, tool, validated,
                   attempt_number, run_calls, timed_out, pending, result, outcome,
                   raised, before, calls_made>>
    /\ UNCHANGED <<threshold, score_calls, react_vars, graph_vars, recover_calls,
                   event_args, line_args, adapter>>

\* execute lines 58-80 in task t: the audit event, then the return or raise.
TaskEnd(t) ==
    /\ tasks[t].pc = "log"
    /\ audit_lines' =
          IF tasks[t].raise = NoExc
          THEN log_event(has_audit, audit_lines, tasks[t].ctx, tasks[t].call,
                         "success", NONE, NONE)
          ELSE log_event(has_audit, audit_lines, tasks[t].ctx, tasks[t].call,
                         "error", tasks[t].raise.type, tasks[t].raise.message)
    /\ tasks' = [tasks EXCEPT ![t].pc = "done"]
    /\ UNCHANGED <<config_vars, orders, users, now, pc, ctx, call, tool, validated,
                   attempt_number, run_calls, timed_out, pending, result, outcome,
                   raised, before, calls_made>>
    /\ UNCHANGED <<threshold, score_calls, react_vars, graph_vars, recover_calls,
                   event_args, line_args, adapter>>

ConcurrentNext ==
    \/ \E t \in TaskIds, r \in ConcurrentRequests : TaskBegin(t, r)
    \/ \E t \in TaskIds : TaskRun(t)
    \/ \E t \in TaskIds : TaskEnd(t)

ConcurrentSpec == ConcurrentInit /\ [][ConcurrentNext]_vars

-----------------------------------------------------------------------------
(* app/tools/audit.py: the redaction of an event's args *)

\* A str is the sequence of its characters.  A JSON value carries its type:
\* a str, None, a dict (its items in order, each a key and a value) or a
\* list (its elements in order).
Str(chars) == [t |-> "str", chars |-> chars]
Null == [t |-> "null"]
Dict(items) == [t |-> "dict", items |-> items]
List(elements) == [t |-> "list", elements |-> elements]
Item(key, value) == [k |-> key, v |-> value]

Chars(s) == {s[i] : i \in DOMAIN s}

Stars == <<"*", "*", "*">>

\* _mask_email, lines 22-28.
mask_email(email) ==
    IF "@" \notin Chars(email)
    THEN Stars
    ELSE LET at == CHOOSE i \in DOMAIN email :
                       email[i] = "@" /\ \A j \in 1..(i - 1) : email[j] # "@"
             local == SubSeq(email, 1, at - 1)
             domain == SubSeq(email, at + 1, Len(email))
         IN IF Len(local) <= 2
            THEN Stars \o <<"@">> \o domain
            ELSE SubSeq(local, 1, 2) \o Stars \o <<"@">> \o domain

\* _mask_phone, lines 31-35.
mask_phone(phone) ==
    IF Len(phone) < 6
    THEN Stars
    ELSE SubSeq(phone, 1, 2) \o Stars \o SubSeq(phone, Len(phone) - 1, Len(phone))

\* str.lower() on the keys of the model.
KeyLower(k) == IF k = "Email" THEN "email" ELSE k

EmailKeys == {"email", "new_email"}
PhoneKeys == {"phone", "new_phone_e164", "phone_e164"}

\* _redact, lines 38-59: a value under a key of EmailKeys or PhoneKeys is
\* masked if it is a str; every other value of a dict and every element of a
\* list is redacted in turn; anything else is returned as it is.
RECURSIVE redact(_)
redact(obj) ==
    IF obj.t = "dict"
    THEN Dict([i \in DOMAIN obj.items |->
                 LET k == obj.items[i].k
                     val == obj.items[i].v
                 IN IF KeyLower(k) \in EmailKeys /\ val.t = "str"
                    THEN Item(k, Str(mask_email(val.chars)))
                    ELSE IF KeyLower(k) \in PhoneKeys /\ val.t = "str"
                    THEN Item(k, Str(mask_phone(val.chars)))
                    ELSE Item(k, redact(val))])
    ELSE IF obj.t = "list"
    THEN List([i \in DOMAIN obj.elements |-> redact(obj.elements[i])])
    ELSE obj

\* The strs the model's args are made of: two emails (one with a local part
\* of one character), a phone number and a word.
ArgEmails == {<<"j", "o", "e", "@", "x", ".", "i", "o">>, <<"j", "@", "x", ".", "i", "o">>}
ArgPhones == {<<"+", "1", "5", "5", "5", "0", "1", "2">>}
ArgWords == {<<"o", "k">>}
ArgKeys ==
    {"email", "Email", "new_email", "phone", "new_phone_e164", "phone_e164",
     "contact"}

\* The args of the events: a dict of one item whose value is a str, None, a
\* dict of one item or a list of one element; and the args of update_contact
\* with both fields.
ArgLeaves == {Str(c) : c \in ArgEmails \cup ArgPhones \cup ArgWords} \cup {Null}
ArgValues ==
    ArgLeaves
    \cup {Dict(<<Item(k, v)>>) : k \in ArgKeys, v \in ArgLeaves}
    \cup {List(<<v>>) : v \in ArgLeaves}
AuditArgs ==
    {Dict(<<Item(k, v)>>) : k \in ArgKeys, v \in ArgValues}
    \cup {Dict(<<Item("new_email", Str(e)), Item("new_phone_e164", Str(ph))>>) :
             e \in ArgEmails, ph \in ArgPhones}

\* _log_event lines 121-133: an event with args = dict(call.args) is handed
\* to the audit logger.
AuditEvent(args) ==
    /\ has_audit
    /\ event_args' = args
    /\ line_args' = NoArgs
    /\ UNCHANGED <<gateway_vars, threshold, score_calls, react_vars, graph_vars,
                   recover_calls, tasks, adapter>>

\* ToolAuditLogger.log lines 81-86: the args are redacted and the line is
\* written.
AuditLog ==
    /\ event_args.t # "none"
    /\ line_args.t = "none"
    /\ line_args' = redact(event_args)
    /\ UNCHANGED <<gateway_vars, threshold, score_calls, react_vars, graph_vars,
                   recover_calls, tasks, event_args, adapter>>

AuditNext ==
    \/ \E args \in AuditArgs : AuditEvent(args)
    \/ AuditLog

AuditSpec == ConcurrentInit /\ [][AuditNext]_vars

-----------------------------------------------------------------------------
(* app/agent/tools_adapter.py *)

\* The text of an Action Input, as a sequence of tokens: white space, the
\* two braces, a member "key": value of a JSON object with the punctuation
\* that goes with it, and any other run of characters.
Space == [t |-> "space"]
LeftBrace == [t |-> "{"]
RightBrace == [t |-> "}"]
Member(key, value) == [t |-> "member", key |-> key, value |-> value]
Text(chars) == [t |-> "text", chars |-> chars]

\* A JSON number.
Num(n) == [t |-> "num", n |-> n]

\* str.strip()
RECURSIVE LStrip(_)
LStrip(s) == IF Len(s) > 0 /\ s[1].t = "space" THEN LStrip(Tail(s)) ELSE s

RECURSIVE RStrip(_)
RStrip(s) ==
    IF Len(s) > 0 /\ s[Len(s)].t = "space"
    THEN RStrip(SubSeq(s, 1, Len(s) - 1))
    ELSE s

Strip(s) == RStrip(LStrip(s))

\* The Python string of a text.  A text of several tokens is a string with
\* braces or white space inside it, which no pattern of the schemas matches.
BrokenText == "{ }"
StrOf(s) ==
    IF Len(s) = 0 THEN ""
    ELSE IF Len(s) = 1 /\ s[1].t = "text" THEN s[1].chars
    ELSE BrokenText

\* str.startswith, for the two prefixes the adapter tests.
StartsWith(s, prefix) ==
    /\ Len(s) > 0
    /\ s[1].t = "text"
    /\ s[1].chars \in
          (CASE prefix = "ord_" -> {SeedOrderId, MissingOrderId}
             [] prefix = "trk_" -> {SeedTrackingId, MissingTrackingId})

\* What is between the braces, white space aside.
Members(s) == SelectSeq(SubSeq(s, 2, Len(s) - 1), LAMBDA tok : tok.t # "space")

\* json.loads of a text in braces: the dict of its members, the last value
\* of a key that occurs twice, or JSONDecodeError if anything but members is
\* between the braces.
JSONDecodeError(s) == \E i \in DOMAIN Members(s) : Members(s)[i].t # "member"

json_loads(s) ==
    LET m == Members(s)
    IN [k \in {m[i].key : i \in DOMAIN m} |->
            m[CHOOSE i \in DOMAIN m :
                /\ m[i].key = k
                /\ \A j \in DOMAIN m : m[j].key = k => j <= i].value]

ParsedDict(members) == [t |-> "dict", members |-> members]

\* _try_parse_json_object
try_parse_json_object(tool_input) ==
    LET s == Strip(tool_input)
    IN IF ~(Len(s) > 0 /\ s[1].t = "{" /\ s[Len(s)].t = "}")
       THEN NoDict
       ELSE IF JSONDecodeError(s)
       THEN NoDict
       ELSE ParsedDict(json_loads(s))

\* Heuristics that take a plain string of any tool for an order id.
heuristic_args_guessing(tool_name, tool_input) ==
    LET s == Strip(tool_input)
    IN IF tool_name = "initiate_password_reset"
       THEN ParsedDict([k \in {"email"} |-> Str(StrOf(s))])
       ELSE ParsedDict([k \in {"order_id"} |-> Str(StrOf(s))])

\* _heuristic_args
heuristic_args(tool_name, tool_input) ==
    LET s == Strip(tool_input)
    IN IF tool_name = "get_order_status"
       THEN ParsedDict([k \in {"order_id"} |-> Str(StrOf(s))])
       ELSE IF tool_name = "track_shipment"
       THEN IF StartsWith(s, "ord_")
            THEN ParsedDict([k \in {"order_id"} |-> Str(StrOf(s))])
            ELSE IF StartsWith(s, "trk_")
            THEN ParsedDict([k \in {"tracking_id"} |-> Str(StrOf(s))])
            ELSE NoDict
       ELSE IF tool_name = "initiate_password_reset"
       THEN ParsedDict([k \in {"email"} |-> Str(StrOf(s))])
       ELSE NoDict

\* The value of a key of the args dict as the input models read it: the
\* default if the key is absent.  A required field has no default: an absent
\* one fails validation, as does the value given for it here.
PyValue(v) ==
    CASE v.t = "str" -> v.chars
      [] v.t = "num" -> v.n
      [] v.t = "null" -> NONE

FieldOf(d, key, default) == IF key \in DOMAIN d THEN PyValue(d[key]) ELSE default

\* ToolCall(name=tool_name, args=args), in the shape the input model of the
\* tool reads: fields the model does not declare are ignored.
AdapterToolCall(tool_name, d) ==
    [name |-> tool_name,
     args |->
        CASE tool_name = "get_order_status" ->
                [order_id |-> FieldOf(d, "order_id", NONE)]
          [] tool_name = "track_shipment" ->
                [tracking_id |-> FieldOf(d, "tracking_id", NONE),
                 order_id |-> FieldOf(d, "order_id", NONE)]
          [] tool_name = "issue_refund" ->
                [order_id |-> FieldOf(d, "order_id", NONE),
                 amount_usd |-> FieldOf(d, "amount_usd", 0),
                 reason_len |-> Len(FieldOf(d, "reason", "")),
                 idempotency_key |-> FieldOf(d, "idempotency_key", NONE)]
          [] tool_name = "update_contact" ->
                [new_email |-> FieldOf(d, "new_email", NONE),
                 new_phone_e164 |-> FieldOf(d, "new_phone_e164", NONE)]
          [] tool_name = "initiate_password_reset" ->
                [email |-> FieldOf(d, "email", NONE)]]

\* Lines 128-139: the observation for an input that gave no args.
ToolInputError == "ToolInputError"
ToolInputErrorObservation ==
    [error |-> ToolInputError,
     message |-> "Tool input must be a JSON object string for this tool.",
     output |-> NoResult]

\* The tools that _build_business_tools wraps.
BusinessTools ==
    {"get_order_status", "track_shipment", "issue_refund", "update_contact",
     "initiate_password_reset"}

\* The Action Inputs the agent sends: plain strings, one of them padded with
\* white space, a JSON object for each tool, and texts in braces that are
\* not JSON or that lack the closing brace.
PlainStrings == {SeedOrderId, SeedTrackingId, SeedEmail, MalformedTrackingId}

JsonObjects ==
    {<<LeftBrace, Member("order_id", Str(SeedOrderId)), RightBrace>>,
     <<LeftBrace, Member("tracking_id", Str(SeedTrackingId)), RightBrace>>,
     <<LeftBrace, Member("order_id", Str(SeedOrderId)), Member("amount_usd", Num(1)),
       Member("reason", Str("Item arrived damaged")), RightBrace, Space>>,
     <<LeftBrace, Member("new_email", Str(NewEmail)), RightBrace>>,
     <<LeftBrace, Member("email", Str(SeedEmail)), RightBrace>>}

ToolInputs ==
    {<<Text(chars)>> : chars \in PlainStrings}
    \cup {<<Space, Text(SeedOrderId), Space>>}
    \cup JsonObjects
    \cup {<<LeftBrace, Text(SeedOrderId), RightBrace>>,
          <<LeftBrace, Member("order_id", Str(SeedOrderId))>>}

\* How many calls of execute the adapter makes.
MaxAdapterCalls == 1

\* _run_business_tool lines 123-139: the args are parsed or guessed; without
\* args the observation is returned and execute is not called.
RunBusinessTool(c, tool_name, tool_input) ==
    /\ adapter.pc \in {"idle", "done"}
    /\ pc \in {"idle", "done"}
    /\ calls_made < MaxAdapterCalls
    /\ LET parsed == try_parse_json_object(tool_input)
           args == IF parsed.t = "None"
                   THEN heuristic_args(tool_name, tool_input)
                   ELSE parsed
       IN adapter' =
            [pc |-> IF args.t = "None" THEN "done" ELSE "execute",
             ctx |-> c,
             tool_name |-> tool_name,
             tool_input |-> tool_input,
             args |-> args,
             observation |-> IF args.t = "None"
                             THEN ToolInputErrorObservation
                             ELSE NoObservation,
             before |-> Snapshot,
             calls |-> calls_made]
    /\ UNCHANGED <<gateway_vars, threshold, score_calls, react_vars, graph_vars,
                   recover_calls, tasks, event_args, line_args>>

\* Line 142: the call of executor.execute.
AdapterExecute ==
    /\ adapter.pc = "execute"
    /\ calls_made = adapter.calls
    /\ LET tc == AdapterToolCall(adapter.tool_name, adapter.args.members)
       IN Execute(adapter.ctx, tc)

\* Lines 143-153: the result or the exception of execute becomes the
\* observation.
AdapterReturn ==
    /\ adapter.pc = "execute"
    /\ calls_made > adapter.calls
    /\ pc = "done"
    /\ adapter' =
          [adapter EXCEPT
              !.pc = "done",
              !.observation =
                  IF outcome = "returned"
                  THEN [error |-> NONE, message |-> "", output |-> result]
                  ELSE [error |-> raised.type, message |-> raised.message,
                        output |-> NoResult]]
    /\ UNCHANGED <<gateway_vars, threshold, score_calls, react_vars, graph_vars,
                   recover_calls, tasks, event_args, line_args>>

\* The process of the ReAct agent's tools: the seed store, any settings.
AdapterInit ==
    /\ Init
    /\ orders = SeedOrders("shipped")

AdapterNext ==
    \/ \E c \in ToolContext, tool_name \in BusinessTools, tool_input \in ToolInputs :
          RunBusinessTool(c, tool_name, tool_input)
    \/ AdapterExecute
    \/ Attempt
    \/ Sleep
    \/ Finish
    \/ AdapterReturn

AdapterSpec == AdapterInit /\ [][AdapterNext]_vars

-----------------------------------------------------------------------------
(* Properties of the gateway with a failing audit file *)

\* C24 as stated: a failure of the audit write never aborts the call: after
\* a handler that succeeded execute returns the handler's result, and after
\* a tool error the caller receives that error.
C24_AuditFailureNeverAborts ==
    pc = "done" =>
        IF pending = NoExc
        THEN outcome = "returned" /\ raised = NoExc
        ELSE outcome = "raised" /\ raised = pending

\* C30: the audit event of an execute call agrees with what the caller
\* observes.  Its status is success, with error_type and error_message null,
\* exactly when execute returned, and error, with error_type and
\* error_message those of the exception, exactly when execute raised; its
\* request_id, user_id and actor are those of the call's ctx.  A call adds
\* at most one event, and exactly one if no write failed.
C30_AuditEventAgreesWithOutcome ==
    pc = "done" =>
        /\ NewLines \in {0, 1}
        /\ (has_audit /\ raised.type # OSError) => NewLines = 1
        /\ outcome = "returned" => raised = NoExc /\ (has_audit => NewLines = 1)
        /\ NewLines = 1 =>
              LET ev == audit_lines[Len(audit_lines)]
              IN /\ ev.request_id = ctx.request_id
                 /\ ev.user_id = ctx.user_id
                 /\ ev.actor = ctx.actor
                 /\ ev.tool_name = call.name
                 /\ ev.status \in {"success", "error"}
                 /\ ev.status = "success" <=> outcome = "returned"
                 /\ ev.status = "error" <=> outcome = "raised"
                 /\ ev.status = "success" =>
                       ev.error_type = NONE /\ ev.error_message = NONE
                 /\ ev.status = "error" =>
                       /\ ev.error_type = raised.type
                       /\ ev.error_message = raised.message

C30_Witness ==
    /\ pc = "done"
    /\ calls_made = 2
    /\ NewLines = 1
    /\ ctx.user_id # SeedUserId
    /\ outcome = "raised"
    /\ raised.type = ToolPolicyError
    /\ audit_lines[Len(audit_lines)].status = "error"
    /\ audit_lines[Len(audit_lines)].error_type = ToolPolicyError
    /\ audit_lines[Len(audit_lines)].user_id = ctx.user_id
    /\ audit_lines[1].status = "success"

-----------------------------------------------------------------------------
(* Properties of the registry *)

\* How often a name occurs in a list of names.
Occurrences(names, n) == Cardinality({i \in DOMAIN names : names[i] = n})

\* What register(t) leaves of a registry: get(t.name) returns t, names()
\* has t.name exactly once, and every other name is as it was.
RegisterContract(reg, t) ==
    LET after == ToolRegistry_register(reg, t)
    IN /\ ToolRegistry_get(after, t.name) = t
       /\ Occurrences(ToolRegistry_names(after), t.name) = 1
       /\ ToolRegistry_keys(after) = ToolRegistry_keys(reg) \cup {t.name}
       /\ \A n \in ToolName \ {t.name} :
             ToolRegistry_get(after, n) = ToolRegistry_get(reg, n)

\* names() of a registry: sorted, each registered name exactly once.
NamesContract(reg) ==
    LET names == ToolRegistry_names(reg)
    IN /\ \A i, j \in DOMAIN names : i < j => StrLess(names[i], names[j])
       /\ {names[i] : i \in DOMAIN names} = ToolRegistry_keys(reg)
       /\ \A n \in ToolRegistry_keys(reg) : Occurrences(names, n) = 1

\* get of a registry: the tool registered last under the name, None for a
\* name that is not registered.
GetContract(reg) ==
    \A n \in ToolName \cup {UnknownToolName} :
        IF n \in ToolRegistry_keys(reg)
        THEN ToolRegistry_get(reg, n) \in {reg[i] : i \in DOMAIN reg}
             /\ ToolRegistry_get(reg, n).name = n
        ELSE ToolRegistry_get(reg, n) = NoTool

\* The contracts of the three methods depend on the registry alone: they are
\* stated for every registry that startup builds, and a registry that no
\* later step changes keeps them.
RegistryContract ==
    /\ pc \in {"startup", "idle"} =>
          /\ GetContract(registry)
          /\ NamesContract(registry)
          /\ \A t \in ToolInstances : RegisterContract(registry, t)
    /\ pc # "startup" =>
          /\ ToolRegistry_keys(registry) = ToolName
          /\ (pc # "idle" => tool = ToolRegistry_get(registry, call.name))

-----------------------------------------------------------------------------
(* Properties of concurrent calls *)

\* What the handler of task t approved on order o: the amount of its result,
\* 0 for a duplicate, a rejected call and a call whose handler has not run.
Approved(t, o) ==
    IF /\ tasks[t].pc \in {"log", "done"}
       /\ tasks[t].raise = NoExc
       /\ tasks[t].call.args.order_id = o
    THEN tasks[t].result.refunded_amount_usd
    ELSE 0

\* No update is lost: the order's refunded amount is what it was at startup
\* plus the amounts the two tasks were told are refunded.
NoLostUpdate ==
    \A o \in DOMAIN orders :
        orders[o].refunded_amount_usd =
            SeedOrders("shipped")[o].refunded_amount_usd
            + Approved("task_1", o) + Approved("task_2", o)

\* C26 as stated: with two issue_refund calls on the same order in flight at
\* the same time, no update is lost (the refunded amount is the sum of the
\* approved amounts) and refunded_amount never exceeds total_amount, in any
\* interleaving.
C26_ConcurrentRefundsAtomic ==
    /\ NoLostUpdate
    /\ \A o \in DOMAIN orders :
          orders[o].refunded_amount_usd <= orders[o].total_amount_usd

-----------------------------------------------------------------------------
(* Properties of the redaction *)

\* The strs in a value, at every depth.
RECURSIVE StrLeaves(_)
StrLeaves(obj) ==
    IF obj.t = "str" THEN {obj.chars}
    ELSE IF obj.t = "dict"
    THEN UNION {StrLeaves(obj.items[i].v) : i \in DOMAIN obj.items}
    ELSE IF obj.t = "list"
    THEN UNION {StrLeaves(obj.elements[i]) : i \in DOMAIN obj.elements}
    ELSE {}

\* A complete email or phone value.
IsEmail(chars) == "@" \in Chars(chars)
IsPhone(chars) == chars # <<>> /\ chars[1] = "+"

\* C25 as stated: the args of every audit line are redacted at every
\* nesting depth, so no line contains a complete email or phone value taken
\* from the args of the call.
C25_NoCompleteEmailOrPhoneInLine ==
    line_args.t # "none" =>
        \A chars \in StrLeaves(event_args) :
            (IsEmail(chars) \/ IsPhone(chars)) => chars \notin StrLeaves(line_args)

-----------------------------------------------------------------------------
(* Properties of the turn's cycle and of the ToolExecution step *)

\* C21 as stated, for the graph: the Reasoning/ToolExecution cycle is
\* bounded by the iteration counter: a turn makes at most max_iterations
\* ToolExecution steps, whatever the reasoning service proposes.
C21_CycleBoundedByMaxIterations ==
    Count(g_path, "tools") <= AgentMaxIterations

\* C22 as stated: when the agent loop raised, or ended with an empty answer
\* or the iteration/time-limit marker, recover_final_answer has run before
\* the answer is scored and before the confidence gate.
C22_FailurePathRunsRecovery ==
    (/\ r_pc \in {"score", "gate", "raised", "returned"}
     /\ (r_answer = ApologyAnswer \/ needs_recovery(r_answer))) =>
        recover_calls = 1

\* The observations of the turn, in order, and the calls they answer.
Observations == SelectSeq(g_state.messages, LAMBDA m : m.type = "tool")

\* The ToolExecution step for the tool calls of message p has run.
ToolStepRan(p) ==
    /\ p \in 1..(Len(g_state.messages) - 1)
    /\ HasToolCalls(g_state.messages[p])

ErrorKinds ==
    {ToolNotFoundError, ToolValidationError, ToolPolicyError, ToolTransientError}

IsErrorObservation(m) == "error" \in DOMAIN m.content

\* C23: each of the four error kinds of the gateway becomes a structured
\* observation: the observation of a call that raised names the error's kind
\* and message, the step goes on to the remaining calls of the message (each
\* of them reaches the gateway and gets its observation), and the turn goes
\* back to Reasoning: no turn is aborted by the ToolExecution step.
C23_ToolErrorsBecomeObservations ==
    /\ g_pc = "aborted" => Last(g_path) # "tools"
    /\ (g_path # <<>> /\ Last(g_path) = "tools") => g_pc = "agent"
    /\ Len(audit_lines) = Len(Observations)
    /\ \A j \in DOMAIN Observations :
          LET m == Observations[j]
              ev == audit_lines[j]
          IN /\ ev.tool_name = m.name
             /\ ev.status = "error" <=> IsErrorObservation(m)
             /\ IsErrorObservation(m) =>
                   /\ m.content.error \in ErrorKinds
                   /\ m.content.error = ev.error_type
                   /\ m.content.message = ev.error_message
    /\ \A p \in DOMAIN g_state.messages :
          ToolStepRan(p) =>
              LET tcs == g_state.messages[p].tool_calls
              IN /\ p + Len(tcs) <= Len(g_state.messages)
                 /\ \A i \in 1..Len(tcs) :
                       /\ g_state.messages[p + i].type = "tool"
                       /\ g_state.messages[p + i].name = tcs[i].name

\* A step of four calls of which the first three failed, each with another
\* kind, and the fourth succeeded.
C23_Witness ==
    /\ g_pc = "agent"
    /\ Len(Observations) >= 4
    /\ LET n == Len(Observations)
       IN /\ \A j \in (n - 3)..(n - 1) : IsErrorObservation(Observations[j])
          /\ Observations[n - 3].content.error = ToolNotFoundError
          /\ Observations[n - 2].content.error = ToolValidationError
          /\ Observations[n - 1].content.error = ToolPolicyError
          /\ ~IsErrorObservation(Observations[n])
          /\ Observations[n].tool_call_id = "call_4"

\* The amounts of the approved refunds among the observations.
RECURSIVE ApprovedRefunds(_)
ApprovedRefunds(obs) ==
    IF obs = <<>>
    THEN 0
    ELSE (IF Head(obs).name = "issue_refund" /\ ~IsErrorObservation(Head(obs))
          THEN Head(obs).content.refunded_amount_usd
          ELSE 0) + ApprovedRefunds(Tail(obs))

\* The refunds among the observations that were made, not recognised as
\* duplicates.
NewRefunds ==
    {j \in DOMAIN Observations :
        /\ Observations[j].name = "issue_refund"
        /\ ~IsErrorObservation(Observations[j])
        /\ Observations[j].content.refund_id # "refund_duplicate"}

\* C28 as stated: all ToolExecution steps of a turn work on the same
\* records: the amounts of the approved refunds of the turn's observations
\* for the order never exceed its total_amount, and a key that an earlier
\* step consumed makes no second refund in a later step (all refund calls
\* of the turn carry the same key).
C28_StepsShareDomainRecords ==
    /\ ApprovedRefunds(Observations) <= TotalAmount
    /\ Cardinality(NewRefunds) <= 1

\* C29: a ToolExecution step makes one gateway call for each tool call of
\* the message, in order, and appends one observation for each, carrying the
\* call's tool_call_id and name: a step with n calls adds exactly n
\* messages and n audit events.
C29_OneObservationPerToolCall ==
    /\ Len(audit_lines) = Len(Observations)
    /\ \A j \in DOMAIN Observations : audit_lines[j].tool_name = Observations[j].name
    /\ \A p \in DOMAIN g_state.messages :
          ToolStepRan(p) =>
              LET tcs == g_state.messages[p].tool_calls
                  n == Len(tcs)
              IN /\ p + n <= Len(g_state.messages)
                 /\ \A i \in 1..n :
                       /\ g_state.messages[p + i].type = "tool"
                       /\ g_state.messages[p + i].tool_call_id = tcs[i].id
                       /\ g_state.messages[p + i].name = tcs[i].name
                 /\ p + n < Len(g_state.messages) =>
                       g_state.messages[p + n + 1].type = "ai"
    /\ \A q \in DOMAIN g_state.messages :
          g_state.messages[q].type = "tool" =>
              \E p \in 1..(q - 1) :
                  /\ HasToolCalls(g_state.messages[p])
                  /\ q - p <= Len(g_state.messages[p].tool_calls)

C29_Witness ==
    /\ g_pc = "agent"
    /\ Count(g_path, "tools") = 2
    /\ Len(Observations) = 6
    /\ Observations[1].tool_call_id = "call_1"
    /\ Observations[2].tool_call_id = "call_2"
    /\ Observations[6].tool_call_id = "call_4"
    /\ Observations[6].name = "get_order_status"

-----------------------------------------------------------------------------
(* Properties of the store under the gateway's calls *)

\* C31 as stated: a call of execute that ends in an error of any kind leaves
\* every order, shipment and user record as it was before the call.
C31_StateUnchangedOnError ==
    (pc = "done" /\ outcome = "raised") =>
        /\ orders = before.orders
        /\ users = before.users
        /\ shipments = SeedShipments

\* What the call in flight, or the last one, has added to the refunded amount
\* of the order it names.
Deducted ==
    orders[call.args.order_id].refunded_amount_usd
        - before.orders[call.args.order_id].refunded_amount_usd

\* C32: over a whole execute call of issue_refund, retries included, the
\* order's refunded amount grows by 0 or by exactly amount_usd, with or
\* without an idempotency key: the handler's body runs to its end at most
\* once in a call, and an attempt that timed out has deducted nothing.
C32_AtMostOneDeductionPerCall ==
    RefundCallOnOrder =>
        /\ Deducted \in {0, call.args.amount_usd}
        /\ Deducted # 0 => /\ run_calls - timed_out = 1
                           /\ pc \in {"log", "done"}
                           /\ pending = NoExc
        /\ timed_out > 0 => Deducted = 0
        /\ run_calls - timed_out \in {0, 1}

\* A refund without a key that was retried after a timeout.
C32_Witness ==
    /\ RefundCallOnOrder
    /\ pc = "done"
    /\ call.args.idempotency_key = NONE
    /\ input_model(call.name, call.args)
    /\ timed_out > 1
    /\ run_calls > 1
    /\ raised.type = ToolTransientError
    /\ Deducted = 0

\* C33: issue_refund deducts only from an order whose status is shipped or
\* delivered: a call on a processing order that passes the ownership, window
\* and amount checks and carries no key recorded on the order raises
\* ToolPolicyError, returns nothing and leaves the order as it was.
C33_ProcessingOrderNeverRefunded ==
    RefundCallOnOrder =>
        LET order == before.orders[call.args.order_id]
        IN /\ Deducted # 0 => order.status \in {"shipped", "delivered"}
           /\ (/\ order.status = "processing"
               /\ HandlerRan
               /\ RefundPolicyChecks(order, ctx, call.args, settings, before.now) = NoExc
               /\ ~IsDuplicateRequest(order, call.args.idempotency_key))
              => /\ pending.type = ToolPolicyError
                 /\ pending.message =
                       "Order is not eligible for refund in its current status."
                 /\ result = NoResult
                 /\ orders = before.orders
                 /\ pc = "done" => outcome = "raised" /\ raised = pending

\* The owner's refund of a processing order, within the window and the cap,
\* was turned away.
C33_Witness ==
    /\ RefundCallOnOrder
    /\ pc = "done"
    /\ HandlerRan
    /\ before.orders[call.args.order_id].status = "processing"
    /\ ctx.user_id = before.orders[call.args.order_id].user_id
    /\ call.args.idempotency_key = RefundKey
    /\ call.args.amount_usd = 1
    /\ raised.type = ToolPolicyError
    /\ raised.message = "Order is not eligible for refund in its current status."
    /\ orders = before.orders

\* C34: over any sequence of tool calls, every order's refunded amount is
\* non-negative and never decreases and its set of recorded keys only
\* grows; a key is recorded on an order only by a step of an issue_refund
\* call on that order that also adds the call's amount_usd > 0 to the
\* refunded amount.
C34_RefundsAndKeysOnlyGrow ==
    /\ [](\A o \in DOMAIN orders : orders[o].refunded_amount_usd >= 0)
    /\ [][\A o \in DOMAIN orders :
            /\ o \in DOMAIN orders'
            /\ orders'[o].refunded_amount_usd >= orders[o].refunded_amount_usd
            /\ orders[o].refund_idempotency_keys \subseteq
                  orders'[o].refund_idempotency_keys
            /\ orders'[o].refund_idempotency_keys # orders[o].refund_idempotency_keys
               => /\ call.name = "issue_refund"
                  /\ call.args.order_id = o
                  /\ call.args.amount_usd > 0
                  /\ orders'[o].refund_idempotency_keys =
                        orders[o].refund_idempotency_keys
                            \cup {call.args.idempotency_key}
                  /\ orders'[o].refunded_amount_usd =
                        orders[o].refunded_amount_usd + call.args.amount_usd]_vars

\* A call recorded its key on an order that had no key, and booked its amount.
C34_Witness ==
    /\ RefundCallOnOrder
    /\ pc = "log"
    /\ before.orders[call.args.order_id].refund_idempotency_keys = {}
    /\ orders[call.args.order_id].refund_idempotency_keys = {RefundKey}
    /\ call.args.amount_usd = 2
    /\ Deducted = 2

\* The update_contact call in flight, or the last one.
ContactCall ==
    /\ pc \in {"attempt", "sleep", "log", "done"}
    /\ call.name = "update_contact"

\* C35: update_contact changes only the email and the phone of the user
\* record of ctx.user_id, and of these only the fields the call supplies; it
\* changes no other user's record, no order and no shipment, and a call by a
\* ctx.user_id without a user record raises ToolValidationError and creates
\* no record.
C35_UpdateContactFrame ==
    ContactCall =>
        /\ orders = before.orders
        /\ shipments = SeedShipments
        /\ DOMAIN users = DOMAIN before.users
        /\ \A u \in DOMAIN users :
              LET old == before.users[u]
                  new == users[u]
              IN /\ new.user_id = old.user_id
                 /\ u # ctx.user_id => new = old
                 /\ new.email \in {old.email, call.args.new_email}
                 /\ new.phone_e164 \in {old.phone_e164, call.args.new_phone_e164}
                 /\ ~Truthy(call.args.new_email) => new.email = old.email
                 /\ ~Truthy(call.args.new_phone_e164) => new.phone_e164 = old.phone_e164
        /\ (HandlerRan /\ ~HasKey(before.users, ctx.user_id))
           => /\ pending = Exc(ToolValidationError, "User not found.")
              /\ result = NoResult
              /\ users = before.users
              /\ pc = "done" => outcome = "raised"

\* A call that supplied a phone only changed the phone and kept the email.
C35_Witness ==
    /\ ContactCall
    /\ pc = "done"
    /\ outcome = "returned"
    /\ call.args.new_email = NONE
    /\ call.args.new_phone_e164 = NewPhone
    /\ before.users[ctx.user_id].phone_e164 = SeedPhone
    /\ users[ctx.user_id].phone_e164 = NewPhone
    /\ users[ctx.user_id].email = before.users[ctx.user_id].email

\* An order without the two fields a refund writes.
OrderFrame(order) ==
    [order_id |-> order.order_id,
     user_id |-> order.user_id,
     status |-> order.status,
     created_at |-> order.created_at,
     total_amount_usd |-> order.total_amount_usd,
     tracking_id |-> order.tracking_id]

ReadOnlyTools == {"get_order_status", "track_shipment", "initiate_password_reset"}

\* C36: get_order_status, track_shipment and initiate_password_reset change
\* no record, and issue_refund changes nothing but refunded_amount_usd and
\* the recorded keys of the order its order_id names: no call changes an
\* order's status, total amount, user_id or tracking_id, another order, or a
\* shipment.
C36_ReadOnlyToolsAndRefundFrame ==
    pc \in {"attempt", "sleep", "log", "done"} =>
        /\ shipments = SeedShipments
        /\ DOMAIN orders = DOMAIN before.orders
        /\ \A o \in DOMAIN orders : OrderFrame(orders[o]) = OrderFrame(before.orders[o])
        /\ call.name \in ReadOnlyTools => StoreUnchanged
        /\ call.name = "issue_refund" =>
              /\ users = before.users
              /\ \A o \in DOMAIN orders :
                    o # call.args.order_id => orders[o] = before.orders[o]

\* A refund without a key was booked on a delivered order, which is still
\* delivered.
C36_Witness ==
    /\ RefundCallOnOrder
    /\ pc = "done"
    /\ outcome = "returned"
    /\ call.args.idempotency_key = NONE
    /\ Deducted = 1
    /\ before.orders[call.args.order_id].status = "delivered"
    /\ orders[call.args.order_id].status = "delivered"

\* The initiate_password_reset call in flight, or the last one, by a caller
\* who has a user record.
ResetCall ==
    /\ pc \in {"attempt", "sleep", "log", "done"}
    /\ call.name = "initiate_password_reset"
    /\ HasKey(before.users, ctx.user_id)

\* C37: initiate_password_reset succeeds only for the caller's own email: a
\* call whose email differs, letter case aside, from the email the user
\* record of ctx.user_id holds when the call is made raises ToolPolicyError,
\* also after update_contact changed that email, and then the new email is
\* the only one accepted.
C37_ResetOnlyForCurrentEmail ==
    ResetCall =>
        LET current == before.users[ctx.user_id].email
        IN /\ users = before.users
           /\ result # NoResult =>
                 /\ Lower(call.args.email) = Lower(current)
                 /\ result.email = current
           /\ (HandlerRan /\ Lower(call.args.email) # Lower(current))
              => /\ pending.type = ToolPolicyError
                 /\ result = NoResult
                 /\ pc = "done" => outcome = "raised" /\ raised.type = ToolPolicyError

\* After update_contact changed the email, a reset for the old email was
\* turned away.
C37_Witness ==
    /\ ResetCall
    /\ pc = "done"
    /\ calls_made = 2
    /\ SeedUsers[ctx.user_id].email = SeedEmail
    /\ before.users[ctx.user_id].email = NewEmail
    /\ call.args.email = EmailCaseVariant
    /\ raised.type = ToolPolicyError

\* The exception of policies.py line 20.
NotYourOrder == Exc(ToolPolicyError, "Order does not belong to the current user.")

\* The schema-valid get_order_status and issue_refund calls on an order of
\* the store that a caller who does not own it can make.
NonOwnerRequests ==
    {r \in [ctx : ToolContext, call : ToolCalls] :
        /\ r.call.name \in {"get_order_status", "issue_refund"}
        /\ input_model(r.call.name, r.call.args)
        /\ HasKey(orders, r.call.args.order_id)
        /\ orders[r.call.args.order_id].user_id # r.ctx.user_id}

\* C38: a caller who does not own an existing order gets the same result
\* from get_order_status and from issue_refund on it, the ownership
\* ToolPolicyError, whatever the order's status, amounts, refund history,
\* age and recorded keys are: in every state the store reaches, each such
\* call raises that error and changes nothing, and so did the call in
\* flight if its handler ran.
C38_NonOwnerResultIndependentOfOrder ==
    /\ pc \in {"idle", "done"} =>
          \A r \in NonOwnerRequests :
              tool_run(r.call.name, r.ctx, r.call.args, orders, shipments, users,
                       settings, now)
                  = Raises(NotYourOrder, orders, users)
    /\ (/\ pc \in {"attempt", "sleep", "log", "done"}
        /\ call.name \in {"get_order_status", "issue_refund"}
        /\ HasKey(before.orders, call.args.order_id)
        /\ before.orders[call.args.order_id].user_id # ctx.user_id
        /\ HandlerRan)
       => /\ pending = NotYourOrder
          /\ result = NoResult
          /\ StoreUnchanged
          /\ pc = "done" => outcome = "raised" /\ raised = NotYourOrder

\* A caller who does not own the order asked for a refund with the key the
\* order has recorded, on a cancelled and partly refunded order past its
\* refund window, and got the ownership error.
C38_Witness ==
    /\ pc = "done"
    /\ call.name = "issue_refund"
    /\ HandlerRan
    /\ HasKey(before.orders, call.args.order_id)
    /\ before.orders[call.args.order_id].user_id # ctx.user_id
    /\ before.orders[call.args.order_id].status = "cancelled"
    /\ before.orders[call.args.order_id].refunded_amount_usd > 0
    /\ call.args.idempotency_key \in
          before.orders[call.args.order_id].refund_idempotency_keys
    /\ before.now - before.orders[call.args.order_id].created_at
          > settings.refund_window_days
    /\ raised = NotYourOrder

-----------------------------------------------------------------------------
(* Properties of the audit log *)

\* The event of the call in flight when it ends with exception exc, or with
\* a result if exc is NoExc.
EventOf(exc) ==
    IF exc = NoExc
    THEN ToolAuditEvent(ctx, call, "success", NONE, NONE)
    ELSE ToolAuditEvent(ctx, call, "error", exc.type, exc.message)

\* C39: the audit log is append-only.  No step changes or removes a line;
\* the only steps that change the log are the ends of execute calls of a
\* gateway with an audit logger, and each adds one line at the end, the
\* event of the call that ends with that step, so the lines are in the
\* order in which the calls completed.  When a write fails, the log call
\* that failed adds nothing and the one that follows, if it succeeds, adds
\* its one line at the end.
C39_AuditLogAppendOnly ==
    [][/\ Len(audit_lines') >= Len(audit_lines)
       /\ SubSeq(audit_lines', 1, Len(audit_lines)) = audit_lines
       /\ audit_lines' # audit_lines =>
             /\ pc = "log"
             /\ pc' = "done"
             /\ has_audit
             /\ audit_lines' = Append(audit_lines, EventOf(raised'))
       /\ (pc = "log" /\ pc' = "done" /\ has_audit /\ raised'.type # OSError) =>
             audit_lines' = Append(audit_lines, EventOf(pending))]_vars

\* The second call's event follows the first call's event, which is as it
\* was written.
C39_Witness ==
    /\ pc = "done"
    /\ calls_made = 2
    /\ before.lines = 1
    /\ Len(audit_lines) = 2
    /\ audit_lines[1].tool_name = "update_contact"
    /\ audit_lines[1].status = "success"
    /\ audit_lines[2].tool_name = "initiate_password_reset"
    /\ audit_lines[2].status = "error"
    /\ audit_lines[2].error_type = ToolPolicyError

-----------------------------------------------------------------------------
(* Properties of the ReAct tool adapter *)

\* The last call of _run_business_tool has returned, and its input was not
\* the text of a JSON object.
NonJsonCallDone ==
    /\ adapter.pc = "done"
    /\ try_parse_json_object(adapter.tool_input).t = "None"

\* The call never reached the gateway: the observation is the
\* ToolInputError, execute was not called, so that no handler ran, and no
\* record and no audit line was written.
NeverReachedGateway ==
    /\ adapter.observation.error = ToolInputError
    /\ adapter.observation.output = NoResult
    /\ calls_made = adapter.calls
    /\ orders = adapter.before.orders
    /\ users = adapter.before.users
    /\ Len(audit_lines) = adapter.before.lines

\* The call went through the gateway with the args made of the plain string
\* under the given key: execute was called once, with these args, and
\* validated them; args that fail the schema ended in ToolValidationError
\* before any handler ran.
WentThroughGateway(key) ==
    /\ calls_made = adapter.calls + 1
    /\ call = AdapterToolCall(adapter.tool_name,
                              [k \in {key} |-> Str(StrOf(Strip(adapter.tool_input)))])
    /\ validated
    /\ adapter.observation.error # ToolInputError
    /\ ~input_model(call.name, call.args) =>
          /\ run_calls = 0
          /\ adapter.observation.error = ToolValidationError

\* C40 as stated: in the ReAct tool adapter a non-JSON input for
\* issue_refund or update_contact never reaches the gateway, and for
\* get_order_status, track_shipment and initiate_password_reset a plain
\* string is turned into args that pass through the gateway's validation.
C40_PlainStringsOfThreeToolsReachGateway ==
    NonJsonCallDone =>
        /\ adapter.tool_name \in {"issue_refund", "update_contact"} =>
              NeverReachedGateway
        /\ adapter.tool_name = "get_order_status" => WentThroughGateway("order_id")
        /\ adapter.tool_name = "initiate_password_reset" => WentThroughGateway("email")
        /\ adapter.tool_name = "track_shipment" =>
              \/ WentThroughGateway("order_id")
              \/ WentThroughGateway("tracking_id")

\* C40, amended: as above, but for track_shipment only a plain string that
\* begins with ord_ or with trk_ is turned into args; any other plain string
\* gets the ToolInputError observation and never reaches the gateway.
C40_NonJsonInputsOfTheAdapter ==
    NonJsonCallDone =>
        LET s == Strip(adapter.tool_input)
        IN /\ adapter.tool_name \in {"issue_refund", "update_contact"} =>
                 NeverReachedGateway
           /\ adapter.tool_name = "get_order_status" => WentThroughGateway("order_id")
           /\ adapter.tool_name = "initiate_password_reset" =>
                 WentThroughGateway("email")
           /\ adapter.tool_name = "track_shipment" =>
                 IF StartsWith(s, "ord_") THEN WentThroughGateway("order_id")
                 ELSE IF StartsWith(s, "trk_") THEN WentThroughGateway("tracking_id")
                 ELSE NeverReachedGateway

\* A plain order id sent to issue_refund was answered with ToolInputError
\* and nothing else happened.
C40_Witness ==
    /\ NonJsonCallDone
    /\ adapter.tool_name = "issue_refund"
    /\ adapter.tool_input = <<Text(SeedOrderId)>>
    /\ adapter.observation = ToolInputErrorObservation
    /\ calls_made = 0
    /\ audit_lines = <<>>

====
